---- MODULE Spec2Model ----
(***************************************************************************)
(* Key slot allocation and lifecycle engine: KeySlotManager (slot table,   *)
(* handover pool, duplicate detection), PriceBasedSlotStrategy (price      *)
(* tiers) and the callers that drive them (KeyManagementApp, web_app).     *)
(*                                                                         *)
(* Python values are modelled as follows.  Optional[T] is None == <<>> or  *)
(* Some(x) == <<x>>.  A str is the sequence of its characters, so that     *)
(* upper() and replace() are computed, not assumed.  The dict self.slots   *)
(* is a function whose DOMAIN is its key set; the list self.sold_vehicles  *)
(* is a function on 0 .. SOLD_VEHICLE_SLOTS-1 (Python list indices).       *)
(* Timestamps (assigned_at, sold_at) and the opaque payloads vehicle_data, *)
(* sold_price and buyer_info are never read by the engine and are left out *)
(* of the records.                                                         *)
(***************************************************************************)
EXTENDS Integers, Sequences, FiniteSets, TLC

VARIABLES
    total_slots,          \* KeySlotManager.total_slots
    assignment_strategy,  \* KeySlotManager.assignment_strategy (Optional)
    slots,                \* KeySlotManager.slots
    sold_vehicles,        \* KeySlotManager.sold_vehicles
    last,                 \* the last accepted call on the manager and what it returned
    sync_lock,            \* web_app.sync_lock: None, or Some(thread) that holds it
    pc,                   \* per thread of web_app: the statement it executes next
    frame,                \* per thread: the local variables of the call it is in
    tally,                \* the calls accepted since construction, where a property counts them
    last_sync_time        \* web_app.last_sync_time: None, or Some(time of the last completed sync)

vars == <<total_slots, assignment_strategy, slots, sold_vehicles, last, sync_lock, pc, frame, tally, last_sync_time>>

-----------------------------------------------------------------------------
(* Bounds of the model and constants of the program *)

\* Largest table the small configurations are built with.
MaxSlots == 2

\* Pool entries left free by the pre-filled initial pool.
PoolFree == 1

\* Vehicles delivered to the dealer in the pool-capacity specification.
MaxStocked == 12

\* Handovers completed in the pool-capacity specification.
MaxCompletions == 1

\* Highest purchase price handed to the strategy on its own.
MaxPrice == 3100

\* Longest list of vehicles the source returns to one sync.
MaxSyncList == 1

\* The values of the clock perform_sync reads: it wraps around after this
\* many completed syncs.
ClockTicks == 2

\* Most records on one page of the source.
MaxPageRecords == 2

\* AutoflexAPIClient.get_all_vehicles: the safety limit of the page loop.
PAGE_LIMIT == 100

\* KeySlotManager.SOLD_VEHICLE_SLOTS
SOLD_VEHICLE_SLOTS == 10

\* KeySlotManager.__init__: total_slots: int = 200
DefaultTotalSlots == 200

-----------------------------------------------------------------------------
(* Optional values and small helpers *)

None == <<>>
Some(x) == <<x>>
Val(o) == o[1]

SetMin(S) == CHOOSE x \in S : \A y \in S : x <= y
SetMax(S) == CHOOSE x \in S : \A y \in S : x >= y
Min2(a, b) == IF a <= b THEN a ELSE b

\* d[k] = v on a Python dict: an absent key is created.
DictSet(d, k, v) == [i \in DOMAIN d \cup {k} |-> IF i = k THEN v ELSE d[i]]

-----------------------------------------------------------------------------
(* Strings *)

\* str.upper() on the characters the plates of the model use; every other
\* character of the model (capitals, digits, space, hyphen) is its own upper case.
UpperCase ==
    [a |-> "A", b |-> "B", c |-> "C", d |-> "D", e |-> "E", f |-> "F",
     g |-> "G", h |-> "H", z |-> "Z"]

Upper(c) == IF c \in DOMAIN UpperCase THEN UpperCase[c] ELSE c

str_upper(s) == [i \in 1..Len(s) |-> Upper(s[i])]

\* str.replace(ch, "") for a one-character ch.
str_remove(s, ch) == SelectSeq(s, LAMBDA c : c # ch)

\* str.strip(): leading and trailing blanks removed.
RECURSIVE str_strip(_)
str_strip(s) ==
    IF s = <<>> THEN s
    ELSE IF Head(s) = " " THEN str_strip(Tail(s))
    ELSE IF s[Len(s)] = " " THEN str_strip(SubSeq(s, 1, Len(s) - 1))
    ELSE s

normalize_license_plate(license_plate) ==
    str_remove(str_remove(str_upper(license_plate), " "), "-")

-----------------------------------------------------------------------------
(* Records *)

SlotAssignment(slot_number, vehicle_id, license_plate, purchase_price) ==
    [slot_number |-> slot_number, vehicle_id |-> vehicle_id,
     license_plate |-> license_plate, purchase_price |-> purchase_price]

SoldVehicle(sold_slot, vehicle_id, license_plate, purchase_price, original_slot) ==
    [sold_slot |-> sold_slot, vehicle_id |-> vehicle_id,
     license_plate |-> license_plate, purchase_price |-> purchase_price,
     original_slot |-> original_slot]

PriceBasedSlotStrategy(high_price_threshold, medium_price_threshold, high_price_slots, medium_price_slots, low_price_slots) ==
    [high_price_threshold |-> high_price_threshold,
     medium_price_threshold |-> medium_price_threshold,
     high_price_slots |-> high_price_slots,
     medium_price_slots |-> medium_price_slots,
     low_price_slots |-> low_price_slots]

\* Default ranges that share no index.
DefaultStrategyDisjoint ==
    PriceBasedSlotStrategy(3000, 1500, <<0, 49>>, <<50, 100>>, <<101, 199>>)

\* PriceBasedSlotStrategy() with every argument defaulted.
DefaultStrategy ==
    PriceBasedSlotStrategy(3000, 1500, <<0, 50>>, <<50, 100>>, <<100, 199>>)

\* Tiers for a table of MaxSlots slots, with the default thresholds: the high
\* range starts below the table, the medium range ends past it and the low
\* range lies wholly outside it.
SmallStrategy ==
    PriceBasedSlotStrategy(3000, 1500, <<-1, 0>>, <<MaxSlots - 1, MaxSlots>>,
                           <<MaxSlots, MaxSlots + 1>>)

-----------------------------------------------------------------------------
(* PriceBasedSlotStrategy.get_slot_range *)

get_slot_range_strict(strategy, purchase_price) ==
    IF purchase_price > strategy.high_price_threshold
    THEN strategy.high_price_slots
    ELSE IF purchase_price > strategy.medium_price_threshold
         THEN strategy.medium_price_slots
         ELSE strategy.low_price_slots

\* The medium threshold tested before the high one.
get_slot_range_medium_first(strategy, purchase_price) ==
    IF purchase_price >= strategy.medium_price_threshold
    THEN strategy.medium_price_slots
    ELSE IF purchase_price >= strategy.high_price_threshold
         THEN strategy.high_price_slots
         ELSE strategy.low_price_slots

get_slot_range(strategy, purchase_price) ==
    IF purchase_price >= strategy.high_price_threshold
    THEN strategy.high_price_slots
    ELSE IF purchase_price >= strategy.medium_price_threshold
         THEN strategy.medium_price_slots
         ELSE strategy.low_price_slots

-----------------------------------------------------------------------------
(* KeySlotManager: queries.  s is self.slots, sv is self.sold_vehicles. *)

is_duplicate_table_only(s, sv, license_plate) ==
    \E k \in DOMAIN s :
        /\ s[k] # None
        /\ normalize_license_plate(Val(s[k]).license_plate)
             = normalize_license_plate(license_plate)

\* Of the pool only its first entry scanned.
is_duplicate_pool_head(s, sv, license_plate) ==
    LET normalized == normalize_license_plate(license_plate)
    IN  \/ \E k \in DOMAIN s :
              /\ s[k] # None
              /\ normalize_license_plate(Val(s[k]).license_plate) = normalized
        \/ /\ sv[0] # None
           /\ normalize_license_plate(Val(sv[0]).license_plate) = normalized

is_duplicate_license_plate(s, sv, license_plate) ==
    LET normalized == normalize_license_plate(license_plate)
    IN  \/ \E k \in DOMAIN s :
              /\ s[k] # None
              /\ normalize_license_plate(Val(s[k]).license_plate) = normalized
        \/ \E i \in DOMAIN sv :
              /\ sv[i] # None
              /\ normalize_license_plate(Val(sv[i]).license_plate) = normalized

is_slot_available_unchecked(s, slot_number) ==
    slot_number \notin DOMAIN s \/ s[slot_number] = None

is_slot_available(s, slot_number) ==
    IF ~(0 <= slot_number /\ slot_number < total_slots)
    THEN FALSE
    ELSE s[slot_number] = None

\* The range taken without its upper end: range(min_slot, max_slot).
get_available_slot_in_range_exclusive(s, min_slot, max_slot) ==
    LET free == {slot \in min_slot .. (Min2(max_slot, total_slots) - 1) :
                    is_slot_available(s, slot)}
    IN  IF free = {} THEN None ELSE Some(SetMin(free))

\* The range scanned from its upper end downwards.
get_available_slot_in_range_descending(s, min_slot, max_slot) ==
    LET free == {slot \in min_slot .. (Min2(max_slot + 1, total_slots) - 1) :
                    is_slot_available(s, slot)}
    IN  IF free = {} THEN None ELSE Some(SetMax(free))

\* for slot in range(min_slot, min(max_slot + 1, total_slots))
get_available_slot_in_range(s, min_slot, max_slot) ==
    LET free == {slot \in min_slot .. (Min2(max_slot + 1, total_slots) - 1) :
                    is_slot_available(s, slot)}
    IN  IF free = {} THEN None ELSE Some(SetMin(free))

get_lowest_available_slot(s) ==
    LET free == {slot \in 0 .. (total_slots - 1) : is_slot_available(s, slot)}
    IN  IF free = {} THEN None ELSE Some(SetMin(free))

\* range(total_slots - 1, 0, -1): slot 0 is never looked at.
get_highest_available_slot_above_zero(s) ==
    LET free == {slot \in 1 .. (total_slots - 1) : is_slot_available(s, slot)}
    IN  IF free = {} THEN None ELSE Some(SetMax(free))

\* for slot in range(total_slots - 1, -1, -1)
get_highest_available_slot(s) ==
    LET free == {slot \in 0 .. (total_slots - 1) : is_slot_available(s, slot)}
    IN  IF free = {} THEN None ELSE Some(SetMax(free))

\* The first match in the iteration order of self.slots.values(), which is
\* the insertion order of the keys: ascending.
get_vehicle_by_license_plate(s, license_plate) ==
    LET normalized == normalize_license_plate(license_plate)
        hits == {k \in DOMAIN s :
                    /\ s[k] # None
                    /\ normalize_license_plate(Val(s[k]).license_plate) = normalized}
    IN  IF hits = {} THEN None ELSE s[SetMin(hits)]

\* The pool listed from its last entry to its first.
get_sold_vehicles_descending(sv) ==
    LET RECURSIVE collect(_)
        collect(i) ==
            IF i < 0 THEN <<>>
            ELSE (IF sv[i] # None THEN <<Val(sv[i])>> ELSE <<>>) \o collect(i - 1)
    IN  collect(SOLD_VEHICLE_SLOTS - 1)

get_sold_vehicles(sv) ==
    LET RECURSIVE collect(_)
        collect(i) ==
            IF i >= SOLD_VEHICLE_SLOTS THEN <<>>
            ELSE (IF sv[i] # None THEN <<Val(sv[i])>> ELSE <<>>) \o collect(i + 1)
    IN  collect(0)

get_available_slots_count(s) == Cardinality({k \in DOMAIN s : s[k] = None})
get_occupied_slots_count(s) == total_slots - get_available_slots_count(s)
get_sold_vehicles_count(sv) == Cardinality({i \in DOMAIN sv : sv[i] # None})

-----------------------------------------------------------------------------
(* KeySlotManager: operations.  Each returns its return value (ret) and the *)
(* fields it leaves behind.                                                 *)

\* The assignment written with slot_number 0 whatever slot receives it.
assign_vehicle_to_slot_unnumbered(s, sv, slot_number, vehicle_id, license_plate, purchase_price, check_duplicate) ==
    IF ~is_slot_available(s, slot_number)
    THEN [ret |-> FALSE, slots |-> s]
    ELSE IF check_duplicate /\ is_duplicate_license_plate(s, sv, license_plate)
         THEN [ret |-> FALSE, slots |-> s]
         ELSE [ret |-> TRUE,
               slots |-> DictSet(s, slot_number,
                                 Some(SlotAssignment(0, vehicle_id,
                                                     license_plate, purchase_price)))]

assign_vehicle_to_slot(s, sv, slot_number, vehicle_id, license_plate, purchase_price, check_duplicate) ==
    IF ~is_slot_available(s, slot_number)
    THEN [ret |-> FALSE, slots |-> s]
    ELSE IF check_duplicate /\ is_duplicate_license_plate(s, sv, license_plate)
         THEN [ret |-> FALSE, slots |-> s]
         ELSE [ret |-> TRUE,
               slots |-> DictSet(s, slot_number,
                                 Some(SlotAssignment(slot_number, vehicle_id,
                                                     license_plate, purchase_price)))]

\* One attempt of assign_vehicle at an Optional slot: lines 258-263, 267-272.
try_slot(s, sv, slot, vehicle_id, license_plate, purchase_price) ==
    IF slot = None
    THEN [ret |-> FALSE, slots |-> s]
    ELSE assign_vehicle_to_slot(s, sv, Val(slot), vehicle_id, license_plate,
                                purchase_price, FALSE)

\* Without a strategy the overflow rule applied: the highest free slot.
assign_vehicle_fallback_highest(s, sv, vehicle_id, license_plate, purchase_price) ==
    IF is_duplicate_license_plate(s, sv, license_plate)
    THEN [ret |-> None, slots |-> s]
    ELSE LET range == IF assignment_strategy = None THEN <<0, -1>>
                      ELSE get_slot_range(Val(assignment_strategy), purchase_price)
             available_slot == get_available_slot_in_range(s, range[1], range[2])
             preferred == try_slot(s, sv, available_slot, vehicle_id, license_plate,
                                   purchase_price)
             highest_slot == get_highest_available_slot(s)
             overflow == try_slot(s, sv, highest_slot, vehicle_id, license_plate,
                                  purchase_price)
         IN  IF preferred.ret
             THEN [ret |-> available_slot, slots |-> preferred.slots]
             ELSE IF overflow.ret
                  THEN [ret |-> highest_slot, slots |-> overflow.slots]
                  ELSE [ret |-> None, slots |-> s]

assign_vehicle(s, sv, vehicle_id, license_plate, purchase_price) ==
    IF is_duplicate_license_plate(s, sv, license_plate)
    THEN [ret |-> None, slots |-> s]
    ELSE IF assignment_strategy = None
    THEN \* Fallback: the first slot of range(total_slots) that is available
         \* and that assign_vehicle_to_slot accepts.
         LET ok == {slot \in 0 .. (total_slots - 1) :
                        /\ is_slot_available(s, slot)
                        /\ assign_vehicle_to_slot(s, sv, slot, vehicle_id, license_plate,
                                                  purchase_price, FALSE).ret}
         IN  IF ok = {}
             THEN [ret |-> None, slots |-> s]
             ELSE [ret |-> Some(SetMin(ok)),
                   slots |-> assign_vehicle_to_slot(s, sv, SetMin(ok), vehicle_id,
                                                    license_plate, purchase_price,
                                                    FALSE).slots]
    ELSE LET range == get_slot_range(Val(assignment_strategy), purchase_price)
             available_slot == get_available_slot_in_range(s, range[1], range[2])
             preferred == try_slot(s, sv, available_slot, vehicle_id, license_plate,
                                   purchase_price)
             \* A failed attempt writes nothing, so the overflow search reads s.
             highest_slot == get_highest_available_slot(s)
             overflow == try_slot(s, sv, highest_slot, vehicle_id, license_plate,
                                  purchase_price)
         IN  IF preferred.ret
             THEN [ret |-> available_slot, slots |-> preferred.slots]
             ELSE IF overflow.ret
                  THEN [ret |-> highest_slot, slots |-> overflow.slots]
                  ELSE [ret |-> None, slots |-> s]

\* vehicle_id = f"MANUAL-{license_plate}"
manual_vehicle_id(license_plate) == <<"MANUAL-">> \o license_plate

\* A preferred slot that is not available fails the call.
add_vehicle_manually_no_fallback(s, sv, license_plate, purchase_price, vehicle_id, preferred_slot) ==
    IF is_duplicate_license_plate(s, sv, license_plate)
    THEN [ret |-> None, slots |-> s]
    ELSE LET vid == IF vehicle_id = None THEN manual_vehicle_id(license_plate)
                    ELSE Val(vehicle_id)
         IN  IF preferred_slot = None
             THEN assign_vehicle(s, sv, vid, license_plate, purchase_price)
             ELSE IF is_slot_available(s, Val(preferred_slot))
                  THEN [ret |-> preferred_slot,
                        slots |-> assign_vehicle_to_slot(s, sv, Val(preferred_slot), vid,
                                                         license_plate, purchase_price,
                                                         FALSE).slots]
                  ELSE [ret |-> None, slots |-> s]

add_vehicle_manually(s, sv, license_plate, purchase_price, vehicle_id, preferred_slot) ==
    IF is_duplicate_license_plate(s, sv, license_plate)
    THEN [ret |-> None, slots |-> s]
    ELSE LET vid == IF vehicle_id = None THEN manual_vehicle_id(license_plate)
                    ELSE Val(vehicle_id)
             direct == IF preferred_slot # None /\ is_slot_available(s, Val(preferred_slot))
                       THEN assign_vehicle_to_slot(s, sv, Val(preferred_slot), vid,
                                                   license_plate, purchase_price, FALSE)
                       ELSE [ret |-> FALSE, slots |-> s]
         IN  IF direct.ret
             THEN [ret |-> preferred_slot, slots |-> direct.slots]
             ELSE assign_vehicle(s, sv, vid, license_plate, purchase_price)

\* The last pool entry never looked at.
first_free_sold_index_short(sv) ==
    LET free == {idx \in DOMAIN sv : sv[idx] = None /\ idx < SOLD_VEHICLE_SLOTS - 1}
    IN  IF free = {} THEN None ELSE Some(SetMin(free))

\* The entry after the last occupied one: freed entries below it not reused.
first_free_sold_index_append(sv) ==
    LET occupied == {i \in 0 .. (SOLD_VEHICLE_SLOTS - 1) : sv[i] # None}
        next == IF occupied = {} THEN 0 ELSE SetMax(occupied) + 1
    IN  IF next < SOLD_VEHICLE_SLOTS THEN Some(next) ELSE None

\* for idx, sold in enumerate(self.sold_vehicles): if sold is None: break
first_free_sold_index(sv) ==
    LET free == {idx \in DOMAIN sv : sv[idx] = None}
    IN  IF free = {} THEN None ELSE Some(SetMin(free))

\* f"v{sold_slot_index + 1}"
sold_slot_name(sold_slot_index) == <<"v", sold_slot_index + 1>>

\* The original slot released before the pool is searched for a free entry.
mark_vehicle_as_sold_release_first(s, sv, license_plate) ==
    LET assignment == get_vehicle_by_license_plate(s, license_plate)
        sold_slot_index == first_free_sold_index(sv)
    IN  IF assignment = None
        THEN [ret |-> FALSE, slots |-> s, sold_vehicles |-> sv]
        ELSE LET a == Val(assignment)
                 released == DictSet(s, a.slot_number, None)
             IN  IF sold_slot_index = None
                 THEN [ret |-> FALSE, slots |-> released, sold_vehicles |-> sv]
                 ELSE [ret |-> TRUE,
                       sold_vehicles |->
                           [sv EXCEPT ![Val(sold_slot_index)] =
                               Some(SoldVehicle(sold_slot_name(Val(sold_slot_index)),
                                                a.vehicle_id, a.license_plate,
                                                a.purchase_price, a.slot_number))],
                       slots |-> released]

\* original_slot taken from the pool index instead of the assignment.
mark_vehicle_as_sold_pool_index(s, sv, license_plate) ==
    LET assignment == get_vehicle_by_license_plate(s, license_plate)
        sold_slot_index == first_free_sold_index(sv)
    IN  IF assignment = None \/ sold_slot_index = None
        THEN [ret |-> FALSE, slots |-> s, sold_vehicles |-> sv]
        ELSE LET a == Val(assignment)
             IN  [ret |-> TRUE,
                  sold_vehicles |->
                      [sv EXCEPT ![Val(sold_slot_index)] =
                          Some(SoldVehicle(sold_slot_name(Val(sold_slot_index)),
                                           a.vehicle_id, a.license_plate,
                                           a.purchase_price, Val(sold_slot_index)))],
                  slots |-> DictSet(s, a.slot_number, None)]

\* The pool record written, the original slot left as it was.
mark_vehicle_as_sold_keep_slot(s, sv, license_plate) ==
    LET assignment == get_vehicle_by_license_plate(s, license_plate)
        sold_slot_index == first_free_sold_index(sv)
    IN  IF assignment = None \/ sold_slot_index = None
        THEN [ret |-> FALSE, slots |-> s, sold_vehicles |-> sv]
        ELSE LET a == Val(assignment)
             IN  [ret |-> TRUE,
                  sold_vehicles |->
                      [sv EXCEPT ![Val(sold_slot_index)] =
                          Some(SoldVehicle(sold_slot_name(Val(sold_slot_index)),
                                           a.vehicle_id, a.license_plate,
                                           a.purchase_price, a.slot_number))],
                  slots |-> s]

\* Every pool record's original_slot set to the slot just vacated.
mark_vehicle_as_sold_retag(s, sv, license_plate) ==
    LET assignment == get_vehicle_by_license_plate(s, license_plate)
        sold_slot_index == first_free_sold_index(sv)
    IN  IF assignment = None \/ sold_slot_index = None
        THEN [ret |-> FALSE, slots |-> s, sold_vehicles |-> sv]
        ELSE LET a == Val(assignment)
                 moved == [sv EXCEPT ![Val(sold_slot_index)] =
                              Some(SoldVehicle(sold_slot_name(Val(sold_slot_index)),
                                               a.vehicle_id, a.license_plate,
                                               a.purchase_price, a.slot_number))]
             IN  [ret |-> TRUE,
                  sold_vehicles |->
                      [idx \in DOMAIN moved |->
                          IF moved[idx] = None THEN None
                          ELSE Some([Val(moved[idx]) EXCEPT !.original_slot = a.slot_number])],
                  slots |-> DictSet(s, a.slot_number, None)]

\* The plate looked up in the pool as well: a pending vehicle sold again.
mark_vehicle_as_sold_pending_too(s, sv, license_plate) ==
    LET assignment == get_vehicle_by_license_plate(s, license_plate)
        sold_slot_index == first_free_sold_index(sv)
        pending == {i \in DOMAIN sv :
                       /\ sv[i] # None
                       /\ normalize_license_plate(Val(sv[i]).license_plate)
                            = normalize_license_plate(license_plate)}
    IN  IF sold_slot_index = None \/ (assignment = None /\ pending = {})
        THEN [ret |-> FALSE, slots |-> s, sold_vehicles |-> sv]
        ELSE IF assignment = None
        THEN [ret |-> TRUE, slots |-> s,
              sold_vehicles |->
                  [sv EXCEPT ![Val(sold_slot_index)] =
                      Some([Val(sv[SetMin(pending)]) EXCEPT
                               !.sold_slot = sold_slot_name(Val(sold_slot_index))])]]
        ELSE LET a == Val(assignment)
             IN  [ret |-> TRUE,
                  sold_vehicles |->
                      [sv EXCEPT ![Val(sold_slot_index)] =
                          Some(SoldVehicle(sold_slot_name(Val(sold_slot_index)),
                                           a.vehicle_id, a.license_plate,
                                           a.purchase_price, a.slot_number))],
                  slots |-> DictSet(s, a.slot_number, None)]

mark_vehicle_as_sold(s, sv, license_plate) ==
    LET assignment == get_vehicle_by_license_plate(s, license_plate)
        sold_slot_index == first_free_sold_index(sv)
    IN  IF assignment = None
        THEN [ret |-> FALSE, slots |-> s, sold_vehicles |-> sv]
        ELSE IF sold_slot_index = None
        THEN [ret |-> FALSE, slots |-> s, sold_vehicles |-> sv]
        ELSE LET a == Val(assignment)
                 sold_vehicle == SoldVehicle(sold_slot_name(Val(sold_slot_index)),
                                             a.vehicle_id, a.license_plate,
                                             a.purchase_price, a.slot_number)
             IN  [ret |-> TRUE,
                  sold_vehicles |-> [sv EXCEPT ![Val(sold_slot_index)] = Some(sold_vehicle)],
                  slots |-> DictSet(s, a.slot_number, None)]

\* The plates compared as they are spelled.
complete_vehicle_handover_exact(sv, license_plate) ==
    LET hits == {idx \in DOMAIN sv :
                    sv[idx] # None /\ Val(sv[idx]).license_plate = license_plate}
    IN  IF hits = {}
        THEN [ret |-> FALSE, sold_vehicles |-> sv]
        ELSE [ret |-> TRUE, sold_vehicles |-> [sv EXCEPT ![SetMin(hits)] = None]]

complete_vehicle_handover(sv, license_plate) ==
    LET normalized == normalize_license_plate(license_plate)
        hits == {idx \in DOMAIN sv :
                    /\ sv[idx] # None
                    /\ normalize_license_plate(Val(sv[idx]).license_plate) = normalized}
    IN  IF hits = {}
        THEN [ret |-> FALSE, sold_vehicles |-> sv]
        ELSE [ret |-> TRUE, sold_vehicles |-> [sv EXCEPT ![SetMin(hits)] = None]]

\* Releasing an empty slot reported as a release.
release_slot_idempotent(s, slot_number) ==
    IF ~(0 <= slot_number /\ slot_number < total_slots)
    THEN [ret |-> FALSE, slots |-> s]
    ELSE [ret |-> TRUE, slots |-> DictSet(s, slot_number, None)]

release_slot(s, slot_number) ==
    IF ~(0 <= slot_number /\ slot_number < total_slots)
    THEN [ret |-> FALSE, slots |-> s]
    ELSE IF s[slot_number] = None
         THEN [ret |-> FALSE, slots |-> s]
         ELSE [ret |-> TRUE, slots |-> DictSet(s, slot_number, None)]

release_by_license_plate(s, license_plate) ==
    LET assignment == get_vehicle_by_license_plate(s, license_plate)
    IN  IF assignment = None
        THEN [ret |-> FALSE, slots |-> s]
        ELSE release_slot(s, Val(assignment).slot_number)

-----------------------------------------------------------------------------
(* KeyManagementApp *)

\* The vehicle handed to assign_vehicle without a look at the table.
process_new_vehicle_unchecked(s, sv, vehicle_id, license_plate, purchase_price) ==
    LET r == assign_vehicle(s, sv, vehicle_id, license_plate, purchase_price)
    IN  [ret |-> r.ret, slots |-> r.slots,
         printed |-> IF r.ret # None THEN None ELSE Some("No available slots")]

\* process_new_vehicle: the slot it returns and the cause it prints when the
\* assignment failed.
process_new_vehicle(s, sv, vehicle_id, license_plate, purchase_price) ==
    LET existing_assignment == get_vehicle_by_license_plate(s, license_plate)
        r == assign_vehicle(s, sv, vehicle_id, license_plate, purchase_price)
    IN  IF existing_assignment # None
        THEN [ret |-> Some(Val(existing_assignment).slot_number), slots |-> s,
              printed |-> None]
        ELSE [ret |-> r.ret, slots |-> r.slots,
              printed |-> IF r.ret # None THEN None ELSE Some("No available slots")]

\* The outcome of sync_vehicles_from_autoflex so far: the tables, the three
\* counters and the actions of the results list.
SyncState(s, sv, added, sold_detected, skipped, results) ==
    [slots |-> s, sold_vehicles |-> sv, added_count |-> added,
     sold_detected_count |-> sold_detected, skipped_count |-> skipped, results |-> results]

\* A record the source flags as sold and the table does not hold is handed
\* to process_new_vehicle like an unsold one.
sync_vehicle_sold_as_new(st, vehicle) ==
    IF vehicle.vehicle_id = None \/ vehicle.license_plate = <<>>
    THEN st
    ELSE IF get_vehicle_by_license_plate(st.slots, vehicle.license_plate) # None
    THEN [st EXCEPT !.skipped_count = @ + 1]
    ELSE LET p == process_new_vehicle(st.slots, st.sold_vehicles, Val(vehicle.vehicle_id),
                                      vehicle.license_plate, vehicle.purchase_price)
         IN  IF p.ret # None
             THEN [st EXCEPT !.slots = p.slots, !.added_count = @ + 1,
                             !.results = Append(@, "added")]
             ELSE [st EXCEPT !.results = Append(@, "add_failed")]

\* An unsold record is handed to process_new_vehicle whether or not the
\* table holds its plate.
sync_vehicle_reprocess(st, vehicle) ==
    IF vehicle.vehicle_id = None \/ vehicle.license_plate = <<>>
    THEN st
    ELSE LET existing == get_vehicle_by_license_plate(st.slots, vehicle.license_plate)
             sold == mark_vehicle_as_sold(st.slots, st.sold_vehicles, vehicle.license_plate)
             p == process_new_vehicle(st.slots, st.sold_vehicles, Val(vehicle.vehicle_id),
                                      vehicle.license_plate, vehicle.purchase_price)
         IN  IF vehicle.is_sold = 1
             THEN IF existing # None
                  THEN IF sold.ret
                       THEN [st EXCEPT !.slots = sold.slots,
                                       !.sold_vehicles = sold.sold_vehicles,
                                       !.sold_detected_count = @ + 1,
                                       !.results = Append(@, "sold_detected")]
                       ELSE [st EXCEPT !.results = Append(@, "sold_failed")]
                  ELSE [st EXCEPT !.skipped_count = @ + 1]
             ELSE IF p.ret # None
                  THEN [st EXCEPT !.slots = p.slots, !.added_count = @ + 1,
                                  !.results = Append(@, "added")]
                  ELSE [st EXCEPT !.results = Append(@, "add_failed")]

\* One iteration of for vehicle in vehicles.
sync_vehicle(st, vehicle) ==
    IF vehicle.vehicle_id = None \/ vehicle.license_plate = <<>>
    THEN st
    ELSE LET existing == get_vehicle_by_license_plate(st.slots, vehicle.license_plate)
             sold == mark_vehicle_as_sold(st.slots, st.sold_vehicles, vehicle.license_plate)
             p == process_new_vehicle(st.slots, st.sold_vehicles, Val(vehicle.vehicle_id),
                                      vehicle.license_plate, vehicle.purchase_price)
         IN  IF vehicle.is_sold = 1
             THEN IF existing # None
                  THEN IF sold.ret
                       THEN [st EXCEPT !.slots = sold.slots,
                                       !.sold_vehicles = sold.sold_vehicles,
                                       !.sold_detected_count = @ + 1,
                                       !.results = Append(@, "sold_detected")]
                       ELSE [st EXCEPT !.results = Append(@, "sold_failed")]
                  ELSE [st EXCEPT !.skipped_count = @ + 1]
             ELSE IF existing # None
             THEN [st EXCEPT !.skipped_count = @ + 1]
             ELSE IF p.ret # None
                  THEN [st EXCEPT !.slots = p.slots, !.added_count = @ + 1,
                                  !.results = Append(@, "added")]
                  ELSE [st EXCEPT !.results = Append(@, "add_failed")]

\* for vehicle in vehicles: each iteration starts from the outcome of the one
\* before it.
RECURSIVE sync_loop(_, _)
sync_loop(st, vehicles) ==
    IF vehicles = <<>> THEN st
    ELSE LET next == CHOOSE outcome \in {sync_vehicle(st, Head(vehicles))} : TRUE
         IN  sync_loop(next, Tail(vehicles))

\* The tables it leaves and the dictionary it returns.
sync_vehicles_from_autoflex(s, sv, vehicles) ==
    LET st == CHOOSE outcome \in {sync_loop(SyncState(s, sv, 0, 0, 0, <<>>), vehicles)} : TRUE
    IN  [slots |-> st.slots, sold_vehicles |-> st.sold_vehicles,
         ret |-> [total |-> Len(vehicles), added |-> st.added_count,
                  sold_detected |-> st.sold_detected_count,
                  skipped |-> st.skipped_count, results |-> st.results]]

-----------------------------------------------------------------------------
(* Inputs *)

Vehicle(vehicle_id, license_plate, purchase_price) ==
    [vehicle_id |-> vehicle_id, license_plate |-> license_plate,
     purchase_price |-> purchase_price]

\* Decimal digits of a natural number, as characters.
DigitChar == <<"0", "1", "2", "3", "4", "5", "6", "7", "8", "9">>
RECURSIVE Decimal(_)
Decimal(n) == IF n < 10 THEN <<DigitChar[n + 1]>>
              ELSE Decimal(n \div 10) \o <<DigitChar[(n % 10) + 1]>>

\* Vehicles that were placed or sold before the first step of a behaviour.
FillerPlate(i) == <<"Z">> \o Decimal(i)
FillerId(i) == <<"F">> \o Decimal(i)

\* The vehicle records the callers submit.  Two of them spell the same
\* normalized plate AB1 differently; the prices sit on and next to the
\* thresholds of the tiers.  A record without vehicle_id is a manual entry.
Vehicles ==
    { Vehicle(Some(<<"V1">>), <<"A", "B", "-", "1">>, 3000),
      Vehicle(None, <<"a", "b", " ", "1">>, 1499),
      Vehicle(Some(<<"V2">>), <<"C", "D", "2">>, 1500),
      Vehicle(Some(<<"V3">>), <<"e", "f", "-", "3">>, 1499) }

\* The plates the callers name in mark_sold, complete_handover and release.
Plates == {v.license_plate : v \in Vehicles}

\* The history variable: the last call that was accepted, and what it returned.
\* A rejected call (ret None or False) leaves it, like everything else, unchanged.
Call(op, ret) == [op |-> op, ret |-> ret]


-----------------------------------------------------------------------------
(* Threads of web_app *)

\* The background thread of start_auto_sync and a thread serving a request.
Threads == {"worker", "request"}

\* The locals of the call a thread is in.  slot is available_slot or
\* highest_slot of assign_vehicle, overflow tells which of the two it is;
\* assignment and sold_slot_index are the locals of mark_vehicle_as_sold;
\* status is the dictionary get_system_status has built for api_status.
Frame(vehicle_id, license_plate, purchase_price) ==
    [vehicle_id |-> vehicle_id, license_plate |-> license_plate,
     purchase_price |-> purchase_price, slot |-> None, overflow |-> FALSE,
     assignment |-> None, sold_slot_index |-> None, status |-> None]

NoFrame == Frame(<<>>, <<>>, 0)

\* The vehicles stocked, the sales accepted and the handovers completed.
Tally(stocked, sold, completed) ==
    [stocked |-> stocked, sold |-> sold, completed |-> completed]

\* datetime.now() as perform_sync reads it: the clock has ticked since the
\* time stored by the sync before, and is read modulo ClockTicks.
datetime_now(stored) == IF stored = None THEN Some(0) ELSE Some((Val(stored) + 1) % ClockTicks)

\* No thread has started: the lock is free and nobody is in a call.  Nothing
\* has been counted.
NoThreadRunning ==
    /\ tally = Tally(0, 0, 0)
    /\ last_sync_time = None
    /\ sync_lock = None
    /\ pc = [t \in Threads |-> "idle"]
    /\ frame = [t \in Threads |-> NoFrame]

-----------------------------------------------------------------------------
(* Construction *)

\* KeySlotManager.__init__: every slot and every pool entry None.
EmptySlots(n) == [slot \in 0 .. (n - 1) |-> None]
EmptyPool == [idx \in 0 .. (SOLD_VEHICLE_SLOTS - 1) |-> None]

\* A pool whose first n entries hold vehicles sold earlier from slot 0.
FilledPool(n) ==
    [idx \in 0 .. (SOLD_VEHICLE_SLOTS - 1) |->
        IF idx < n
        THEN Some(SoldVehicle(sold_slot_name(idx), FillerId(idx), FillerPlate(idx), 1000, 0))
        ELSE None]

\* A manager built with a small table, with or without a strategy, either
\* fresh or after SOLD_VEHICLE_SLOTS - PoolFree earlier sales.
Init ==
    /\ total_slots = MaxSlots
    /\ \E c \in { <<None, EmptyPool>>,
                   <<Some(SmallStrategy), EmptyPool>>,
                   <<Some(SmallStrategy), FilledPool(SOLD_VEHICLE_SLOTS - PoolFree)>> } :
            /\ assignment_strategy = c[1]
            /\ sold_vehicles = c[2]
    /\ slots = EmptySlots(total_slots)
    /\ last = Call("init", None)
    /\ NoThreadRunning

-----------------------------------------------------------------------------
(* The public calls on the manager, each one atomic. *)

AssignVehicle ==
    \E v \in {w \in Vehicles : w.vehicle_id # None} :
        LET r == assign_vehicle(slots, sold_vehicles, Val(v.vehicle_id), v.license_plate,
                                v.purchase_price)
        IN  /\ slots' = r.slots
            /\ last' = IF r.ret # None THEN Call("assign_vehicle", r.ret) ELSE last
            /\ UNCHANGED <<tally, last_sync_time, total_slots, assignment_strategy, sold_vehicles, sync_lock, pc, frame>>

AddVehicleManually ==
    \E v \in Vehicles,
       preferred_slot \in {None} \cup {Some(n) : n \in -1 .. total_slots} :
        LET r == add_vehicle_manually(slots, sold_vehicles, v.license_plate,
                                      v.purchase_price, v.vehicle_id, preferred_slot)
        IN  /\ slots' = r.slots
            /\ last' = IF r.ret # None THEN Call("add_vehicle_manually", r.ret) ELSE last
            /\ UNCHANGED <<tally, last_sync_time, total_slots, assignment_strategy, sold_vehicles, sync_lock, pc, frame>>

MarkVehicleAsSold ==
    \E license_plate \in Plates :
        LET r == mark_vehicle_as_sold(slots, sold_vehicles, license_plate)
        IN  /\ slots' = r.slots
            /\ sold_vehicles' = r.sold_vehicles
            /\ last' = IF r.ret THEN Call("mark_vehicle_as_sold", r.ret) ELSE last
            /\ UNCHANGED <<tally, last_sync_time, total_slots, assignment_strategy, sync_lock, pc, frame>>

CompleteVehicleHandover ==
    \E license_plate \in Plates :
        LET r == complete_vehicle_handover(sold_vehicles, license_plate)
        IN  /\ sold_vehicles' = r.sold_vehicles
            /\ last' = IF r.ret THEN Call("complete_vehicle_handover", r.ret) ELSE last
            /\ UNCHANGED <<tally, last_sync_time, total_slots, assignment_strategy, slots, sync_lock, pc, frame>>

ReleaseSlot ==
    \E slot_number \in -1 .. total_slots :
        LET r == release_slot(slots, slot_number)
        IN  /\ slots' = r.slots
            /\ last' = IF r.ret THEN Call("release_slot", r.ret) ELSE last
            /\ UNCHANGED <<tally, last_sync_time, total_slots, assignment_strategy, sold_vehicles, sync_lock, pc, frame>>

ReleaseByLicensePlate ==
    \E license_plate \in Plates :
        LET r == release_by_license_plate(slots, license_plate)
        IN  /\ slots' = r.slots
            /\ last' = IF r.ret THEN Call("release_by_license_plate", r.ret) ELSE last
            /\ UNCHANGED <<tally, last_sync_time, total_slots, assignment_strategy, sold_vehicles, sync_lock, pc, frame>>

Next ==
    \/ AssignVehicle
    \/ AddVehicleManually
    \/ MarkVehicleAsSold
    \/ CompleteVehicleHandover
    \/ ReleaseSlot
    \/ ReleaseByLicensePlate

Spec == Init /\ [][Next]_vars

-----------------------------------------------------------------------------
(* The manager as KeyManagementApp builds it: 200 slots, the default tiers, *)
(* an empty pool.  The tier boundaries cut the table into five blocks; the  *)
(* initial table has a run of consecutive blocks (or none) occupied by      *)
(* vehicles placed earlier.  The submitted vehicles are then assigned,      *)
(* sold, handed over and released.                                          *)

DefaultBlocks ==
    LET h == DefaultStrategy.high_price_slots
        m == DefaultStrategy.medium_price_slots
        l == DefaultStrategy.low_price_slots
    IN  << h[1] .. (h[2] - 1), {h[2]}, (m[1] + 1) .. (m[2] - 1), {m[2]}, (l[1] + 1) .. l[2] >>

FilledSlots(n, occupied) ==
    [slot \in 0 .. (n - 1) |->
        IF slot \in occupied
        THEN Some(SlotAssignment(slot, FillerId(slot), FillerPlate(slot), 1000))
        ELSE None]

InitDefault ==
    /\ total_slots = DefaultTotalSlots
    /\ assignment_strategy = Some(DefaultStrategy)
    /\ \E first \in 1 .. Len(DefaultBlocks), end \in 0 .. Len(DefaultBlocks) :
          slots = FilledSlots(total_slots, UNION {DefaultBlocks[b] : b \in first .. end})
    /\ sold_vehicles = EmptyPool
    /\ last = Call("init", None)
    /\ NoThreadRunning

NextDefault ==
    \/ AssignVehicle
    \/ MarkVehicleAsSold
    \/ CompleteVehicleHandover
    \/ ReleaseByLicensePlate

SpecDefault == InitDefault /\ [][NextDefault]_vars

-----------------------------------------------------------------------------
(* The capacity of the handover pool: a manager built with an empty pool,   *)
(* to which vehicles with fresh plates are delivered one after the other.   *)
(* The table has a single slot, so that one vehicle is in stock at a time   *)
(* and the sales happen in the order of delivery.  Vehicles in stock are    *)
(* sold, sold vehicles are handed over, and the accepted calls are counted. *)

InitPool ==
    /\ total_slots = 1
    /\ assignment_strategy = None
    /\ slots = EmptySlots(total_slots)
    /\ sold_vehicles = EmptyPool
    /\ last = Call("init", None)
    /\ NoThreadRunning

InStockPlates(s) == {Val(s[k]).license_plate : k \in {j \in DOMAIN s : s[j] # None}}
PendingPlates(sv) == {Val(sv[i]).license_plate : i \in {j \in DOMAIN sv : sv[j] # None}}

\* assign_vehicle of the next vehicle delivered.
StockVehicle ==
    /\ tally.stocked < MaxStocked
    /\ LET r == assign_vehicle(slots, sold_vehicles, FillerId(tally.stocked),
                               FillerPlate(tally.stocked), 1000)
       IN  /\ slots' = r.slots
           /\ last' = IF r.ret # None THEN Call("assign_vehicle", r.ret) ELSE last
           /\ tally' = IF r.ret # None THEN [tally EXCEPT !.stocked = @ + 1] ELSE tally
    /\ UNCHANGED <<last_sync_time, total_slots, assignment_strategy, sold_vehicles, sync_lock, pc, frame>>

\* mark_vehicle_as_sold of a vehicle in stock.
SellStockedVehicle ==
    /\ \E license_plate \in InStockPlates(slots) :
          LET r == mark_vehicle_as_sold(slots, sold_vehicles, license_plate)
          IN  /\ slots' = r.slots
              /\ sold_vehicles' = r.sold_vehicles
              /\ last' = IF r.ret THEN Call("mark_vehicle_as_sold", r.ret) ELSE last
              /\ tally' = IF r.ret THEN [tally EXCEPT !.sold = @ + 1] ELSE tally
    /\ UNCHANGED <<last_sync_time, total_slots, assignment_strategy, sync_lock, pc, frame>>

\* complete_vehicle_handover of a vehicle pending handover.
HandOverSoldVehicle ==
    /\ tally.completed < MaxCompletions
    /\ \E license_plate \in PendingPlates(sold_vehicles) :
          LET r == complete_vehicle_handover(sold_vehicles, license_plate)
          IN  /\ sold_vehicles' = r.sold_vehicles
              /\ last' = IF r.ret THEN Call("complete_vehicle_handover", r.ret) ELSE last
              /\ tally' = IF r.ret THEN [tally EXCEPT !.completed = @ + 1] ELSE tally
    /\ UNCHANGED <<last_sync_time, total_slots, assignment_strategy, slots, sync_lock, pc, frame>>

NextPool ==
    \/ StockVehicle
    \/ SellStockedVehicle
    \/ HandOverSoldVehicle

SpecPool == InitPool /\ [][NextPool]_vars

-----------------------------------------------------------------------------
(* web_app: one KeyManagementApp shared by the background thread, which     *)
(* runs perform_sync under sync_lock, and the request threads, whose        *)
(* handlers call the same manager without any lock.  A thread is preempted  *)
(* between statements, so a call on the manager is a sequence of steps:     *)
(* each step below is one read of the tables (a scan) or one write.         *)

\* The threads contend for one vehicle: the submitted records that spell
\* this normalized plate, and their plates.
ContendedPlate == <<"A", "B", "1">>
ConcVehicles == {v \in Vehicles : normalize_license_plate(v.license_plate) = ContendedPlate}
ConcPlates == {v.license_plate : v \in ConcVehicles}

\* The records get_all_vehicles returns: those of the records that carry an
\* id, each of them sold or unsold in Autoflex.
SourceVehicles == {v \in ConcVehicles : v.vehicle_id # None}

\* get_app(): KeyManagementApp() with the default manager and strategy.
InitConc ==
    /\ total_slots = DefaultTotalSlots
    /\ assignment_strategy = Some(DefaultStrategy)
    /\ slots = EmptySlots(total_slots)
    /\ sold_vehicles = EmptyPool
    /\ last = Call("init", None)
    /\ NoThreadRunning

Goto(t, label) == pc' = [pc EXCEPT ![t] = label]

\* A call on the manager returns: into the loop of sync_vehicles_from_autoflex
\* if the thread is inside perform_sync, to the end of the request otherwise.
Return(t) ==
    /\ Goto(t, IF sync_lock = Some(t) THEN "sync_loop" ELSE "idle")
    /\ frame' = [frame EXCEPT ![t] = NoFrame]

\* Where a thread goes on when perform_sync returns or raises:
\* auto_sync_worker, which catches the exception, sleeps for
\* AUTO_SYNC_INTERVAL; a request or the startup sync is over.
AfterPerformSync(t) == IF t = "worker" THEN "sleep" ELSE "idle"

\* auto_sync_worker (when started and after each sleep, AUTO_SYNC_ENABLED
\* being True), the startup sync and api_sync call perform_sync.
PerformSync(t) ==
    /\ pc[t] \in {"idle", "sleep"}
    /\ Goto(t, "perform_sync")
    /\ UNCHANGED <<tally, last_sync_time, total_slots, assignment_strategy, slots, sold_vehicles, last, sync_lock, frame>>

\* with sync_lock:
AcquireSyncLock(t) ==
    /\ pc[t] = "perform_sync"
    /\ sync_lock = None
    /\ sync_lock' = Some(t)
    /\ Goto(t, "authenticate")
    /\ UNCHANGED <<tally, last_sync_time, total_slots, assignment_strategy, slots, sold_vehicles, last, frame>>

\* if not key_mgmt.authenticate(): last_sync_result = {'success': False, ...}
\* and return, which leaves the with block.
Authenticate(t) ==
    /\ pc[t] = "authenticate"
    /\ \E authenticated \in BOOLEAN :
          IF authenticated
          THEN Goto(t, "sync_loop") /\ UNCHANGED <<sync_lock, last>>
          ELSE /\ Goto(t, AfterPerformSync(t))
               /\ sync_lock' = None
               /\ last' = Call("perform_sync", [success |-> FALSE])
    /\ UNCHANGED <<tally, last_sync_time, total_slots, assignment_strategy, slots, sold_vehicles, frame>>

\* One iteration of for vehicle in vehicles, up to the call it makes.
SyncVehicle(t) ==
    /\ pc[t] = "sync_loop"
    /\ \E v \in SourceVehicles, is_sold \in BOOLEAN :
          LET existing == get_vehicle_by_license_plate(slots, v.license_plate)
              call == IF is_sold /\ existing # None THEN "mark_vehicle_as_sold"
                      ELSE IF ~is_sold /\ existing = None THEN "process_new_vehicle"
                      ELSE "sync_loop"
          IN  /\ Goto(t, call)
              /\ frame' = [frame EXCEPT ![t] =
                              IF call = "sync_loop" THEN NoFrame
                              ELSE Frame(v.vehicle_id, v.license_plate, v.purchase_price)]
    /\ UNCHANGED <<tally, last_sync_time, total_slots, assignment_strategy, slots, sold_vehicles, last, sync_lock>>

\* The list is exhausted (or was empty): perform_sync stores the time and
\* the result and returns, and the with block releases the lock.
SyncReturn(t) ==
    /\ pc[t] = "sync_loop"
    /\ last_sync_time' = datetime_now(last_sync_time)
    /\ last' = Call("perform_sync", [success |-> TRUE])
    /\ sync_lock' = None
    /\ Goto(t, AfterPerformSync(t))
    /\ UNCHANGED <<tally, total_slots, assignment_strategy, slots, sold_vehicles, frame>>

ProcessNewVehicle(t) ==
    /\ pc[t] = "process_new_vehicle"
    /\ IF get_vehicle_by_license_plate(slots, frame[t].license_plate) # None
       THEN Return(t)
       ELSE Goto(t, "assign_vehicle") /\ UNCHANGED frame
    /\ UNCHANGED <<tally, last_sync_time, total_slots, assignment_strategy, slots, sold_vehicles, last, sync_lock>>

\* POST /api/vehicle: the plate is stripped and upper-cased, an empty plate
\* is refused, and no vehicle_id and no preferred_slot are passed on.
ApiAddVehicle(t) ==
    /\ pc[t] = "idle"
    /\ t # "worker"
    /\ \E v \in ConcVehicles :
          LET license_plate == str_upper(str_strip(v.license_plate))
          IN  IF license_plate = <<>>
              THEN UNCHANGED <<pc, frame>>
              ELSE /\ Goto(t, "add_vehicle_manually")
                   /\ frame' = [frame EXCEPT ![t] =
                                   Frame(None, license_plate, v.purchase_price)]
    /\ UNCHANGED <<tally, last_sync_time, total_slots, assignment_strategy, slots, sold_vehicles, last, sync_lock>>

\* add_vehicle_manually up to its call of assign_vehicle, without preferred_slot.
ManualDuplicateCheck(t) ==
    /\ pc[t] = "add_vehicle_manually"
    /\ IF is_duplicate_license_plate(slots, sold_vehicles, frame[t].license_plate)
       THEN Return(t)
       ELSE /\ Goto(t, "assign_vehicle")
            /\ frame' = [frame EXCEPT ![t].vehicle_id =
                            IF @ = None THEN Some(manual_vehicle_id(frame[t].license_plate))
                            ELSE @]
    /\ UNCHANGED <<tally, last_sync_time, total_slots, assignment_strategy, slots, sold_vehicles, last, sync_lock>>

\* assign_vehicle: if self.is_duplicate_license_plate(license_plate)
AssignDuplicateCheck(t) ==
    /\ pc[t] = "assign_vehicle"
    /\ IF is_duplicate_license_plate(slots, sold_vehicles, frame[t].license_plate)
       THEN Return(t)
       ELSE Goto(t, "find_slot") /\ UNCHANGED frame
    /\ UNCHANGED <<tally, last_sync_time, total_slots, assignment_strategy, slots, sold_vehicles, last, sync_lock>>

\* assign_vehicle with a strategy: the search of the tier range.
AssignFindSlot(t) ==
    /\ pc[t] = "find_slot"
    /\ assignment_strategy # None
    /\ LET range == get_slot_range(Val(assignment_strategy), frame[t].purchase_price)
           available_slot == get_available_slot_in_range(slots, range[1], range[2])
       IN  /\ Goto(t, IF available_slot # None THEN "check_slot" ELSE "find_overflow")
           /\ frame' = [frame EXCEPT ![t].slot = available_slot]
    /\ UNCHANGED <<tally, last_sync_time, total_slots, assignment_strategy, slots, sold_vehicles, last, sync_lock>>

\* assign_vehicle_to_slot: if not self.is_slot_available(slot_number).  A
\* refusal of available_slot leads to the overflow search, a refusal of
\* highest_slot to return None.
AssignCheckSlot(t) ==
    /\ pc[t] = "check_slot"
    /\ IF is_slot_available(slots, Val(frame[t].slot))
       THEN Goto(t, "write_slot") /\ UNCHANGED frame
       ELSE IF frame[t].overflow
            THEN Return(t)
            ELSE Goto(t, "find_overflow") /\ UNCHANGED frame
    /\ UNCHANGED <<tally, last_sync_time, total_slots, assignment_strategy, slots, sold_vehicles, last, sync_lock>>

\* assign_vehicle_to_slot: self.slots[slot_number] = assignment
AssignWriteSlot(t) ==
    /\ pc[t] = "write_slot"
    /\ slots' = DictSet(slots, Val(frame[t].slot),
                        Some(SlotAssignment(Val(frame[t].slot), Val(frame[t].vehicle_id),
                                            frame[t].license_plate,
                                            frame[t].purchase_price)))
    /\ Return(t)
    /\ UNCHANGED <<tally, last_sync_time, total_slots, assignment_strategy, sold_vehicles, last, sync_lock>>

\* assign_vehicle: highest_slot = self.get_highest_available_slot()
AssignFindOverflow(t) ==
    /\ pc[t] = "find_overflow"
    /\ LET highest_slot == get_highest_available_slot(slots)
       IN  IF highest_slot = None
           THEN Return(t)
           ELSE /\ Goto(t, "check_slot")
                /\ frame' = [frame EXCEPT ![t].slot = highest_slot,
                                          ![t].overflow = TRUE]
    /\ UNCHANGED <<tally, last_sync_time, total_slots, assignment_strategy, slots, sold_vehicles, last, sync_lock>>

\* POST /api/sell: the plate is stripped.
ApiSell(t) ==
    /\ pc[t] = "idle"
    /\ t # "worker"
    /\ \E license_plate \in ConcPlates :
          /\ Goto(t, "mark_vehicle_as_sold")
          /\ frame' = [frame EXCEPT ![t] = Frame(None, str_strip(license_plate), 0)]
    /\ UNCHANGED <<tally, last_sync_time, total_slots, assignment_strategy, slots, sold_vehicles, last, sync_lock>>

\* mark_vehicle_as_sold: assignment = self.get_vehicle_by_license_plate(...)
SoldLookup(t) ==
    /\ pc[t] = "mark_vehicle_as_sold"
    /\ LET assignment == get_vehicle_by_license_plate(slots, frame[t].license_plate)
       IN  IF assignment = None
           THEN Return(t)
           ELSE /\ Goto(t, "find_sold_slot")
                /\ frame' = [frame EXCEPT ![t].assignment = assignment]
    /\ UNCHANGED <<tally, last_sync_time, total_slots, assignment_strategy, slots, sold_vehicles, last, sync_lock>>

\* mark_vehicle_as_sold: the search for a free pool entry.
SoldFindSlot(t) ==
    /\ pc[t] = "find_sold_slot"
    /\ LET sold_slot_index == first_free_sold_index(sold_vehicles)
       IN  IF sold_slot_index = None
           THEN Return(t)
           ELSE /\ Goto(t, "move_to_sold")
                /\ frame' = [frame EXCEPT ![t].sold_slot_index = sold_slot_index]
    /\ UNCHANGED <<tally, last_sync_time, total_slots, assignment_strategy, slots, sold_vehicles, last, sync_lock>>

\* mark_vehicle_as_sold: self.sold_vehicles[sold_slot_index] = sold_vehicle
SoldMoveToPool(t) ==
    /\ pc[t] = "move_to_sold"
    /\ LET a == Val(frame[t].assignment)
           sold_slot_index == Val(frame[t].sold_slot_index)
       IN  sold_vehicles' =
               [sold_vehicles EXCEPT ![sold_slot_index] =
                   Some(SoldVehicle(sold_slot_name(sold_slot_index), a.vehicle_id,
                                    a.license_plate, a.purchase_price, a.slot_number))]
    /\ Goto(t, "release_original")
    /\ UNCHANGED <<tally, last_sync_time, total_slots, assignment_strategy, slots, last, sync_lock, frame>>

\* mark_vehicle_as_sold: self.slots[assignment.slot_number] = None
SoldReleaseOriginal(t) ==
    /\ pc[t] = "release_original"
    /\ slots' = DictSet(slots, Val(frame[t].assignment).slot_number, None)
    /\ Return(t)
    /\ UNCHANGED <<tally, last_sync_time, total_slots, assignment_strategy, sold_vehicles, last, sync_lock>>

\* POST /api/handover: the plate is stripped; the scan of the pool and the
\* write of the entry it finds are taken as one step.
ApiHandover(t) ==
    /\ pc[t] = "idle"
    /\ t # "worker"
    /\ \E license_plate \in ConcPlates :
          sold_vehicles' =
              complete_vehicle_handover(sold_vehicles, str_strip(license_plate)).sold_vehicles
    /\ UNCHANGED <<tally, last_sync_time, total_slots, assignment_strategy, slots, last, sync_lock, pc, frame>>

\* GET /api/status: get_system_status reads the counts of the manager.  The
\* reads are taken as one step.
ApiStatus(t) ==
    /\ pc[t] = "idle"
    /\ t # "worker"
    /\ Goto(t, "status_response")
    /\ frame' = [frame EXCEPT ![t].status =
                    Some([occupied_slots |-> get_occupied_slots_count(slots),
                          sold_vehicles_pending |-> get_sold_vehicles_count(sold_vehicles)])]
    /\ UNCHANGED <<tally, last_sync_time, total_slots, assignment_strategy, slots, sold_vehicles, last, sync_lock>>

\* return jsonify(...): the response leaves the handler.
ApiStatusResponse(t) ==
    /\ pc[t] = "status_response"
    /\ Return(t)
    /\ UNCHANGED <<tally, last_sync_time, total_slots, assignment_strategy, slots, sold_vehicles, last, sync_lock>>

NextConc ==
    \E t \in Threads :
        \/ PerformSync(t)
        \/ AcquireSyncLock(t)
        \/ Authenticate(t)
        \/ SyncVehicle(t)
        \/ SyncReturn(t)
        \/ ProcessNewVehicle(t)
        \/ ApiAddVehicle(t)
        \/ ManualDuplicateCheck(t)
        \/ AssignDuplicateCheck(t)
        \/ AssignFindSlot(t)
        \/ AssignCheckSlot(t)
        \/ AssignWriteSlot(t)
        \/ AssignFindOverflow(t)
        \/ ApiSell(t)
        \/ SoldLookup(t)
        \/ SoldFindSlot(t)
        \/ SoldMoveToPool(t)
        \/ SoldReleaseOriginal(t)
        \/ ApiHandover(t)
        \/ ApiStatus(t)
        \/ ApiStatusResponse(t)

SpecConc == InitConc /\ [][NextConc]_vars

-----------------------------------------------------------------------------
(* Properties of the sequential engine, checked under Spec.  A property of *)
(* a call is stated of the call's result in every reachable state, for     *)
(* every input: the actions above install exactly that result.             *)

Normalized(entry) == normalize_license_plate(Val(entry).license_plate)
TableHolders(s, n) == {k \in DOMAIN s : s[k] # None /\ Normalized(s[k]) = n}
PoolHolders(sv, n) == {i \in DOMAIN sv : sv[i] # None /\ Normalized(sv[i]) = n}
HeldPlates(s, sv) ==
    {Normalized(s[k]) : k \in {j \in DOMAIN s : s[j] # None}}
        \cup {Normalized(sv[i]) : i \in {j \in DOMAIN sv : sv[j] # None}}
FreeSlots(s) == {k \in 0 .. (total_slots - 1) : s[k] = None}
AssignableVehicles == {v \in Vehicles : v.vehicle_id # None}
AssignResult(v) ==
    assign_vehicle(slots, sold_vehicles, Val(v.vehicle_id), v.license_plate,
                   v.purchase_price)
SoldResult(license_plate) == mark_vehicle_as_sold(slots, sold_vehicles, license_plate)
TierRange(v) == get_slot_range(Val(assignment_strategy), v.purchase_price)

\* C1: in every reachable state no normalized license plate is held more than
\* once across the slot table and the handover pool together.
C1_PlateHeldOnce ==
    \A n \in HeldPlates(slots, sold_vehicles) :
        Cardinality(TableHolders(slots, n)) + Cardinality(PoolHolders(sold_vehicles, n)) = 1

\* A sale has just moved a plate into the pool while a slot is free and a
\* caller holds another spelling of that plate.
C1_Witness ==
    /\ last.op = "mark_vehicle_as_sold"
    /\ FreeSlots(slots) # {}
    /\ \E v \in Vehicles, i \in DOMAIN sold_vehicles :
          /\ sold_vehicles[i] # None
          /\ Normalized(sold_vehicles[i]) = normalize_license_plate(v.license_plate)
          /\ Val(sold_vehicles[i]).license_plate # v.license_plate

\* C2: a rejected assign and a rejected mark_sold leave the slot table and the
\* handover pool as they were.
C2_RejectedCallChangesNothing ==
    /\ \A v \in AssignableVehicles :
          AssignResult(v).ret = None => AssignResult(v).slots = slots
    /\ \A license_plate \in Plates :
          ~SoldResult(license_plate).ret =>
              /\ SoldResult(license_plate).slots = slots
              /\ SoldResult(license_plate).sold_vehicles = sold_vehicles

\* A state in which a sale is rejected because the pool is full, a sale is
\* rejected because the plate is not in the table, and an assign is rejected
\* as a duplicate.
C2_Witness ==
    /\ first_free_sold_index(sold_vehicles) = None
    /\ \E license_plate \in Plates :
          /\ get_vehicle_by_license_plate(slots, license_plate) # None
          /\ ~SoldResult(license_plate).ret
    /\ \E license_plate \in Plates :
          /\ get_vehicle_by_license_plate(slots, license_plate) = None
          /\ ~SoldResult(license_plate).ret
    /\ \E v \in AssignableVehicles :
          /\ is_duplicate_license_plate(slots, sold_vehicles, v.license_plate)
          /\ AssignResult(v).ret = None

\* C3: a successful assign returns an index of the table that was free, and
\* afterwards that slot holds the new assignment and every other slot is as
\* it was, whatever range the strategy returned.
C3_AssignReturnsTheSlotItFilled ==
    \A v \in AssignableVehicles :
        LET r == AssignResult(v)
        IN  r.ret # None =>
              /\ 0 <= Val(r.ret) /\ Val(r.ret) < total_slots
              /\ slots[Val(r.ret)] = None
              /\ DOMAIN r.slots = 0 .. (total_slots - 1)
              /\ r.slots[Val(r.ret)] =
                     Some(SlotAssignment(Val(r.ret), Val(v.vehicle_id), v.license_plate,
                                         v.purchase_price))
              /\ \A k \in DOMAIN slots : k # Val(r.ret) => r.slots[k] = slots[k]

\* An assign has just placed a vehicle whose tier range starts below the
\* table, ends past it or lies wholly outside it.
C3_Witness ==
    /\ last.op = "assign_vehicle"
    /\ assignment_strategy # None
    /\ slots[Val(last.ret)] # None
    /\ LET range == get_slot_range(Val(assignment_strategy),
                                   Val(slots[Val(last.ret)]).purchase_price)
       IN  range[1] < 0 \/ range[2] >= total_slots

\* C4: an assign of a plate that is not a duplicate is rejected exactly when
\* no index of the table is free.
C4_FullIffNoFreeSlot ==
    \A v \in AssignableVehicles :
        ~is_duplicate_license_plate(slots, sold_vehicles, v.license_plate) =>
            (AssignResult(v).ret = None <=> FreeSlots(slots) = {})

\* An assign has just filled the last free slot and a caller holds a vehicle
\* that is no duplicate: its assign is rejected as full.
C4_Witness ==
    /\ last.op = "assign_vehicle"
    /\ FreeSlots(slots) = {}
    /\ \E v \in AssignableVehicles :
          /\ ~is_duplicate_license_plate(slots, sold_vehicles, v.license_plate)
          /\ AssignResult(v).ret = None

\* Every index of the tier range that the table has is occupied.
RangeFull(s, range) ==
    \A k \in range[1] .. range[2] : (0 <= k /\ k < total_slots) => s[k] # None

\* C6: with a strategy, a plate that is no duplicate, a tier range that is
\* fully occupied and a free slot elsewhere, assign returns the highest free
\* index of the table.
C6_OverflowToHighestFree ==
    \A v \in AssignableVehicles :
        ( /\ assignment_strategy # None
          /\ ~is_duplicate_license_plate(slots, sold_vehicles, v.license_plate)
          /\ RangeFull(slots, TierRange(v))
          /\ FreeSlots(slots) # {} )
        => AssignResult(v).ret = Some(SetMax(FreeSlots(slots)))

\* An assign has just overflowed: the vehicle sits outside its tier range
\* while a lower index is free.
C6_Witness ==
    /\ last.op = "assign_vehicle"
    /\ assignment_strategy # None
    /\ slots[Val(last.ret)] # None
    /\ LET range == get_slot_range(Val(assignment_strategy),
                                   Val(slots[Val(last.ret)]).purchase_price)
       IN  /\ ~(range[1] <= Val(last.ret) /\ Val(last.ret) <= range[2])
           /\ \E k \in FreeSlots(slots) : k < Val(last.ret)

\* C7: after a successful mark_sold the plate is no longer found in the slot
\* table, its slot is empty, and the pending list holds exactly one record of
\* that plate, carrying the vacated slot and the assignment's id, plate and
\* price.
C7_SoldVehicleMovesToPool ==
    \A license_plate \in Plates :
        LET r == SoldResult(license_plate)
            a == Val(get_vehicle_by_license_plate(slots, license_plate))
            pending == get_sold_vehicles(r.sold_vehicles)
            matching == {j \in 1 .. Len(pending) :
                            normalize_license_plate(pending[j].license_plate)
                                = normalize_license_plate(license_plate)}
        IN  r.ret =>
              /\ get_vehicle_by_license_plate(r.slots, license_plate) = None
              /\ r.slots[a.slot_number] = None
              /\ slots[a.slot_number] = Some(a)
              /\ Cardinality(matching) = 1
              /\ \A j \in matching :
                    /\ pending[j].original_slot = a.slot_number
                    /\ pending[j].vehicle_id = a.vehicle_id
                    /\ pending[j].license_plate = a.license_plate
                    /\ pending[j].purchase_price = a.purchase_price

\* A sale has just been accepted: the pool holds a record of a submitted
\* vehicle whose original slot is now empty.
C7_Witness ==
    /\ last.op = "mark_vehicle_as_sold"
    /\ \E i \in DOMAIN sold_vehicles, v \in Vehicles :
          /\ sold_vehicles[i] # None
          /\ Val(sold_vehicles[i]).license_plate = v.license_plate
          /\ Val(sold_vehicles[i]).original_slot > 0
          /\ slots[Val(sold_vehicles[i]).original_slot] = None

-----------------------------------------------------------------------------
(* Properties of the default configuration, checked under SpecDefault. *)

\* The tier ranges as the specification states them.
StatedRange(purchase_price) ==
    IF purchase_price >= 3000 THEN <<0, 50>>
    ELSE IF purchase_price >= 1500 THEN <<50, 100>>
    ELSE <<100, 199>>

-----------------------------------------------------------------------------
(* Properties of the engine under its concurrent callers, checked under    *)
(* SpecConc.                                                               *)

\* C8: mark_sold is one transition, so no query of another caller finds the
\* vehicle in the slot table and in the handover pool at once: the threads
\* contend for one vehicle, and no status response counts it both as
\* occupying a slot and as pending handover.
C8_StatusNeverCountsVehicleInBothPlaces ==
    \A t \in Threads :
        pc[t] = "status_response" =>
            ~( /\ Val(frame[t].status).occupied_slots >= 1
               /\ Val(frame[t].status).sold_vehicles_pending >= 1 )

\* The sync thread stands between the two writes of mark_vehicle_as_sold
\* while the status handler holds a response that counts the vehicle twice.
C8_Witness ==
    /\ pc["worker"] = "release_original"
    /\ pc["request"] = "status_response"
    /\ Val(frame["request"].status).occupied_slots = 1
    /\ Val(frame["request"].status).sold_vehicles_pending = 1

\* A thread that has read the tables and has a write of them still to make.
MidOperation(t) == pc[t] \in {"write_slot", "move_to_sold", "release_original"}

\* C9: the read-then-write operations on the slot table and the pool exclude
\* one another: at no time are two threads both between the first read and
\* the last write of such an operation.
C9_OneOperationAtATime ==
    Cardinality({t \in Threads : MidOperation(t)}) <= 1

\* The sync thread, holding sync_lock, and the add-vehicle handler have both
\* passed the duplicate check for one plate and are both about to write.
C9_Witness ==
    /\ sync_lock = Some("worker")
    /\ pc["worker"] = "write_slot"
    /\ pc["request"] = "write_slot"
    /\ normalize_license_plate(frame["worker"].license_plate)
         = normalize_license_plate(frame["request"].license_plate)

\* No call is in flight: the worker sleeps or has not started, no request
\* is being served.
Quiescent == \A t \in Threads : pc[t] \in {"idle", "sleep"}

\* C10: under every interleaving of the background sync with the add, sell
\* and handover handlers no normalized plate is held twice: never by two
\* slots (two assigns of one plate never both succeed), never by two pool
\* records (two mark_sold of one plate never both move it), and, once no call
\* is in flight, never by a slot and a pool record together.
C10_ConcurrentCallersKeepPlatesUnique ==
    \A n \in HeldPlates(slots, sold_vehicles) :
        /\ Cardinality(TableHolders(slots, n)) <= 1
        /\ Cardinality(PoolHolders(sold_vehicles, n)) <= 1
        /\ Quiescent =>
              Cardinality(TableHolders(slots, n))
                  + Cardinality(PoolHolders(sold_vehicles, n)) = 1

\* No call is in flight and the pool holds two records of one plate, moved
\* there by the sync and by the sell handler.
C10_Witness ==
    /\ Quiescent
    /\ \E n \in HeldPlates(slots, sold_vehicles) :
          Cardinality(PoolHolders(sold_vehicles, n)) = 2

-----------------------------------------------------------------------------
(* Properties of the lifecycle and of the remaining calls, checked under   *)
(* Spec.                                                                   *)

TablePlates(s) == {Normalized(s[k]) : k \in {j \in DOMAIN s : s[j] # None}}
PoolPlates(sv) == {Normalized(sv[i]) : i \in {j \in DOMAIN sv : sv[j] # None}}

\* C11: a plate goes from the slot table to the pool and from the pool to
\* absence, never otherwise: a pool record appears only in an accepted
\* mark_sold and copies an assignment the table held at that moment; a plate
\* in the pool is not in the table; a pool record changes only by being
\* cleared in an accepted complete_handover, after which the plate is held
\* nowhere; and no step takes a plate of the pool into the table.
C11_InStockSoldHandedOver ==
    [][ /\ \A idx \in DOMAIN sold_vehicles :
              /\ (sold_vehicles[idx] = None /\ sold_vehicles'[idx] # None) =>
                    /\ last'.op = "mark_vehicle_as_sold"
                    /\ \E k \in DOMAIN slots :
                          /\ slots[k] # None
                          /\ Val(slots[k]).license_plate = Val(sold_vehicles'[idx]).license_plate
                          /\ Val(slots[k]).vehicle_id = Val(sold_vehicles'[idx]).vehicle_id
              /\ (sold_vehicles[idx] # None /\ sold_vehicles'[idx] # sold_vehicles[idx]) =>
                    /\ sold_vehicles'[idx] = None
                    /\ last'.op = "complete_vehicle_handover"
                    /\ Normalized(sold_vehicles[idx]) \notin TablePlates(slots')
                    /\ Normalized(sold_vehicles[idx]) \notin PoolPlates(sold_vehicles')
        /\ PoolPlates(sold_vehicles') \cap TablePlates(slots') = {}
        /\ PoolPlates(sold_vehicles) \cap TablePlates(slots') = {} ]_vars

\* A handover has just removed a submitted vehicle from the pool: its plate
\* is held nowhere, while another submitted vehicle is still in the pool and
\* a third is in the table.
C11_Witness ==
    /\ last.op = "complete_vehicle_handover"
    /\ \E v \in Vehicles :
          normalize_license_plate(v.license_plate) \notin HeldPlates(slots, sold_vehicles)
    /\ \E v \in Vehicles :
          normalize_license_plate(v.license_plate) \in PoolPlates(sold_vehicles)
    /\ \E v \in Vehicles :
          normalize_license_plate(v.license_plate) \in TablePlates(slots)

-----------------------------------------------------------------------------
(* Properties of the pool's capacity, checked under SpecPool. *)

\* C12 as stated: from an empty pool the sale of a vehicle in stock is
\* accepted while fewer than 10 sales have been accepted and rejected once 10
\* have been, whatever handovers were completed in between.
C12_EleventhSaleFailsWhateverCompleted ==
    \A license_plate \in InStockPlates(slots) :
        LET r == mark_vehicle_as_sold(slots, sold_vehicles, license_plate)
        IN  /\ tally.sold < SOLD_VEHICLE_SLOTS => r.ret
            /\ tally.sold >= SOLD_VEHICLE_SLOTS => ~r.ret

\* C12, amended: the pool holds the sales accepted less the handovers
\* completed; the sale of a vehicle in stock is rejected exactly when the
\* pool holds 10 records, so that with no handover completed the first 10
\* sales are accepted and the 11th is rejected.
C12_SaleFailsIffPoolHoldsTen ==
    /\ get_sold_vehicles_count(sold_vehicles) = tally.sold - tally.completed
    /\ \A license_plate \in InStockPlates(slots) :
          LET r == mark_vehicle_as_sold(slots, sold_vehicles, license_plate)
          IN  /\ ~r.ret <=> get_sold_vehicles_count(sold_vehicles) = SOLD_VEHICLE_SLOTS
              /\ tally.completed = 0 => (~r.ret <=> tally.sold = SOLD_VEHICLE_SLOTS)

\* Ten sales have been accepted, no handover completed, and the sale of the
\* vehicle now in stock, the 11th, is rejected.
C12_Witness ==
    /\ tally.sold = SOLD_VEHICLE_SLOTS
    /\ tally.completed = 0
    /\ \E license_plate \in InStockPlates(slots) :
          ~mark_vehicle_as_sold(slots, sold_vehicles, license_plate).ret

-----------------------------------------------------------------------------
(* Properties of complete_handover, preferred slots and release, checked   *)
(* under Spec.                                                             *)

HandoverResult(license_plate) == complete_vehicle_handover(sold_vehicles, license_plate)

\* C13: complete_handover of a plate that is in the pool returns true and
\* clears the one pool entry of that plate, leaving every other entry as it
\* was; repeated at once for the same plate it returns false and changes
\* nothing; for a plate that is not in the pool, be it in the slot table, it
\* returns false and changes nothing.
C13_HandoverClearsOnce ==
    \A license_plate \in Plates :
        LET n == normalize_license_plate(license_plate)
            r == HandoverResult(license_plate)
            again == complete_vehicle_handover(r.sold_vehicles, license_plate)
        IN  /\ PoolHolders(sold_vehicles, n) # {} =>
                  /\ r.ret
                  /\ \E idx \in PoolHolders(sold_vehicles, n) :
                        r.sold_vehicles = [sold_vehicles EXCEPT ![idx] = None]
                  /\ PoolHolders(r.sold_vehicles, n) = {}
                  /\ ~again.ret
                  /\ again.sold_vehicles = r.sold_vehicles
            /\ PoolHolders(sold_vehicles, n) = {} =>
                  /\ ~r.ret
                  /\ r.sold_vehicles = sold_vehicles

\* A handover has just been completed; a caller holds a plate of the pool in
\* another spelling than the pool record's, and a plate that is only in the
\* slot table.
C13_Witness ==
    /\ last.op = "complete_vehicle_handover"
    /\ \E license_plate \in Plates, idx \in DOMAIN sold_vehicles :
          /\ sold_vehicles[idx] # None
          /\ Normalized(sold_vehicles[idx]) = normalize_license_plate(license_plate)
          /\ Val(sold_vehicles[idx]).license_plate # license_plate
          /\ HandoverResult(license_plate).ret
    /\ \E license_plate \in Plates :
          /\ get_vehicle_by_license_plate(slots, license_plate) # None
          /\ ~HandoverResult(license_plate).ret

-----------------------------------------------------------------------------
(* The reference scenario: 200 slots, an empty table, the default strategy. *)
(* The calls are made in the order of the scenario; tally tells how far it  *)
(* has come.  The vehicles that fill indices 2..50 all have one price, any  *)
(* of the high prices.                                                      *)

HighPrices == {3000, 3500, 4000}

InitScenario ==
    /\ total_slots = DefaultTotalSlots
    /\ assignment_strategy = Some(DefaultStrategy)
    /\ slots = EmptySlots(total_slots)
    /\ sold_vehicles = EmptyPool
    /\ last = Call("init", None)
    /\ NoThreadRunning

PlateAB123C == <<"A", "B", "-", "1", "2", "3", "-", "C">>
PlateCD456E == <<"C", "D", "-", "4", "5", "6", "-", "E">>
PlateEF789G == <<"E", "F", "-", "7", "8", "9", "-", "G">>
PlateGH012I == <<"G", "H", "-", "0", "1", "2", "-", "I">>

\* The price of the vehicles that fill the high tier: that of the first of
\* them, which went to slot 2, once it is there.
ScenarioFillerPrices == IF slots[2] = None THEN HighPrices ELSE {Val(slots[2]).purchase_price}

\* The vehicles the n-th assign of the scenario may be called with, n from 0.
ScenarioVehicles(n) ==
    IF n = 0 THEN {Vehicle(Some(<<"V1">>), PlateAB123C, 3500)}
    ELSE IF n = 1 THEN {Vehicle(Some(<<"V2">>), PlateCD456E, 3500)}
    ELSE IF n <= 50
    THEN {Vehicle(Some(<<"V">> \o Decimal(n + 1)), FillerPlate(n), p) : p \in ScenarioFillerPrices}
    ELSE IF n = 51 THEN {Vehicle(Some(<<"V52">>), PlateEF789G, 3600)}
    ELSE {Vehicle(Some(<<"V53">>), PlateGH012I, 3700)}

\* The next assign of the scenario; the last one follows the sale.
ScenarioAssign ==
    /\ tally.stocked <= 51 \/ (tally.stocked = 52 /\ tally.sold = 1)
    /\ \E v \in ScenarioVehicles(tally.stocked) :
          LET r == assign_vehicle(slots, sold_vehicles, Val(v.vehicle_id), v.license_plate,
                                  v.purchase_price)
          IN  /\ slots' = r.slots
              /\ last' = IF r.ret # None THEN Call("assign_vehicle", r.ret) ELSE last
              /\ tally' = IF r.ret # None THEN [tally EXCEPT !.stocked = @ + 1] ELSE tally
    /\ UNCHANGED <<last_sync_time, total_slots, assignment_strategy, sold_vehicles, sync_lock, pc, frame>>

\* mark_sold("AB-123-C"), after the overflow.
ScenarioSell ==
    /\ tally.stocked = 52
    /\ tally.sold = 0
    /\ LET r == mark_vehicle_as_sold(slots, sold_vehicles, PlateAB123C)
       IN  /\ slots' = r.slots
           /\ sold_vehicles' = r.sold_vehicles
           /\ last' = IF r.ret THEN Call("mark_vehicle_as_sold", r.ret) ELSE last
           /\ tally' = IF r.ret THEN [tally EXCEPT !.sold = @ + 1] ELSE tally
    /\ UNCHANGED <<last_sync_time, total_slots, assignment_strategy, sync_lock, pc, frame>>

NextScenario ==
    \/ ScenarioAssign
    \/ ScenarioSell

SpecScenario == InitScenario /\ [][NextScenario]_vars

\* What the next assign of the scenario returns, whichever vehicle it takes.
ScenarioAssignReturns(ret) ==
    \A v \in ScenarioVehicles(tally.stocked) :
        assign_vehicle(slots, sold_vehicles, Val(v.vehicle_id), v.license_plate,
                       v.purchase_price).ret = ret

\* C14: in the reference scenario the assign of AB-123-C returns 0 and that of
\* CD-456-E returns 1; the high-price vehicles that follow fill indices 2..50
\* in ascending order; with 0..50 full the assign of EF-789-G returns 199;
\* mark_sold of AB-123-C is accepted, labels the pool record v1 and frees
\* slot 0; and the assign of GH-012-I then returns 0.
C14_ReferenceScenario ==
    /\ tally.stocked <= 50 => ScenarioAssignReturns(Some(tally.stocked))
    /\ tally.stocked >= 51 =>
          \A k \in 1 .. 50 : slots[k] # None /\ Val(slots[k]).purchase_price >= 3000
    /\ tally.stocked = 51 => ScenarioAssignReturns(Some(199))
    /\ (tally.stocked = 52 /\ tally.sold = 0) =>
          LET r == mark_vehicle_as_sold(slots, sold_vehicles, PlateAB123C)
          IN  /\ slots[0] # None
              /\ r.ret
              /\ r.slots[0] = None
              /\ r.sold_vehicles[0] # None
              /\ Val(r.sold_vehicles[0]).license_plate = PlateAB123C
              /\ Val(r.sold_vehicles[0]).sold_slot = <<"v", 1>>
    /\ (tally.stocked = 52 /\ tally.sold = 1) => ScenarioAssignReturns(Some(0))

\* The scenario has run to its end: GH-012-I sits in slot 0, EF-789-G in
\* slot 199 and AB-123-C in the pool.
C14_Witness ==
    /\ tally.stocked = 53
    /\ tally.sold = 1
    /\ last = Call("assign_vehicle", Some(0))
    /\ slots[0] # None /\ Val(slots[0]).license_plate = PlateGH012I
    /\ slots[199] # None /\ Val(slots[199]).license_plate = PlateEF789G
    /\ sold_vehicles[0] # None /\ Val(sold_vehicles[0]).license_plate = PlateAB123C

-----------------------------------------------------------------------------
(* Properties of the rejections, checked under Spec. *)

\* C15: a rejection tells its caller its kind: an assign rejected for a
\* duplicate plate does not return what an assign rejected for a full table
\* returns, a mark_sold rejected for a plate that is not in the table does
\* not return what one rejected for a full pool returns, and
\* process_new_vehicle reports no available slots only when there are none.
C15_RejectionTellsItsKind ==
    /\ \A v, w \in AssignableVehicles :
          ( /\ AssignResult(v).ret = None
            /\ AssignResult(w).ret = None
            /\ is_duplicate_license_plate(slots, sold_vehicles, v.license_plate)
            /\ ~is_duplicate_license_plate(slots, sold_vehicles, w.license_plate) )
          => AssignResult(v) # AssignResult(w)
    /\ \A p, q \in Plates :
          ( /\ ~SoldResult(p).ret
            /\ ~SoldResult(q).ret
            /\ get_vehicle_by_license_plate(slots, p) = None
            /\ get_vehicle_by_license_plate(slots, q) # None )
          => SoldResult(p) # SoldResult(q)
    /\ \A v \in AssignableVehicles :
          process_new_vehicle(slots, sold_vehicles, Val(v.vehicle_id), v.license_plate,
                              v.purchase_price).printed = Some("No available slots")
              => FreeSlots(slots) = {}

\* A slot is free and a submitted vehicle's plate is in the pool: the sync
\* that offers the vehicle again is told there are no available slots.
C15_Witness ==
    /\ FreeSlots(slots) # {}
    /\ \E v \in AssignableVehicles :
          /\ PoolHolders(sold_vehicles, normalize_license_plate(v.license_plate)) # {}
          /\ process_new_vehicle(slots, sold_vehicles, Val(v.vehicle_id), v.license_plate,
                                 v.purchase_price).printed = Some("No available slots")

-----------------------------------------------------------------------------
(* Further properties of the tables, checked under Spec. *)

\* C16: a pool record is written once: it comes into being with original_slot
\* the slot its vehicle vacates in that step, and from then on no step
\* changes it, its original_slot in particular, whatever happens to that
\* slot, until complete_handover destroys it.
C16_OriginalSlotIsKept ==
    [][\A idx \in DOMAIN sold_vehicles :
          /\ (sold_vehicles[idx] = None /\ sold_vehicles'[idx] # None) =>
                LET k == Val(sold_vehicles'[idx]).original_slot
                IN  /\ k \in DOMAIN slots
                    /\ slots[k] # None
                    /\ Val(slots[k]).license_plate = Val(sold_vehicles'[idx]).license_plate
                    /\ slots'[k] = None
          /\ (sold_vehicles[idx] # None /\ sold_vehicles'[idx] # None) =>
                /\ Val(sold_vehicles'[idx]).original_slot = Val(sold_vehicles[idx]).original_slot
                /\ sold_vehicles'[idx] = sold_vehicles[idx] ]_vars

\* Two submitted vehicles were sold from one slot, one after the other, and
\* the slot now holds a third: both pool records still name that slot.
C16_Witness ==
    \E i, j \in DOMAIN sold_vehicles :
        /\ i # j
        /\ sold_vehicles[i] # None
        /\ sold_vehicles[j] # None
        /\ Val(sold_vehicles[i]).license_plate \in Plates
        /\ Val(sold_vehicles[j]).license_plate \in Plates
        /\ Val(sold_vehicles[i]).original_slot = Val(sold_vehicles[j]).original_slot
        /\ slots[Val(sold_vehicles[i]).original_slot] # None


\* The table with slot k emptied and every other slot as it is.
Cleared(s, k) == [i \in DOMAIN s |-> IF i = k THEN None ELSE s[i]]

\* C17: the table has exactly the indices 0 .. total_slots - 1, each empty
\* or holding one assignment, and the assignment at index k carries
\* slot_number k; so an accepted release_by_license_plate or mark_sold
\* empties the slot that holds the plate, and no other.
C17_SlotNumberIsPosition ==
    /\ DOMAIN slots = 0 .. (total_slots - 1)
    /\ \A k \in DOMAIN slots :
          slots[k] # None =>
              /\ slots[k] = Some(Val(slots[k]))
              /\ Val(slots[k]).slot_number = k
    /\ \A p \in Plates :
          LET holders == TableHolders(slots, normalize_license_plate(p))
              released == release_by_license_plate(slots, p)
              sold == mark_vehicle_as_sold(slots, sold_vehicles, p)
          IN  /\ released.ret => /\ holders # {}
                                 /\ released.slots = Cleared(slots, SetMin(holders))
              /\ sold.ret => /\ holders # {}
                             /\ sold.slots = Cleared(slots, SetMin(holders))

\* A vehicle sits in a slot other than 0, and release_by_license_plate and
\* mark_sold both accept its plate.
C17_Witness ==
    /\ \E k \in DOMAIN slots : k > 0 /\ slots[k] # None
    /\ \E p \in Plates : release_by_license_plate(slots, p).ret
                         /\ Val(get_vehicle_by_license_plate(slots, p)).slot_number > 0
    /\ \E p \in Plates : mark_vehicle_as_sold(slots, sold_vehicles, p).ret
                         /\ Val(get_vehicle_by_license_plate(slots, p)).slot_number > 0


\* The preferred slots a caller may name: none, in bounds, or out of bounds.
PreferredSlots == {None} \cup {Some(n) : n \in -1 .. total_slots}

ManualResult(v, preferred_slot) ==
    add_vehicle_manually(slots, sold_vehicles, v.license_plate, v.purchase_price,
                         v.vehicle_id, preferred_slot)

\* What add_vehicle_manually hands to assign_vehicle as the vehicle's id.
ManualId(v) ==
    IF v.vehicle_id = None THEN manual_vehicle_id(v.license_plate) ELSE Val(v.vehicle_id)

\* C18: add_vehicle_manually with a preferred slot rejects a duplicate plate
\* whatever the slot; for a plate that is no duplicate it places the vehicle
\* at the preferred slot, and nowhere else, when that slot is in bounds and
\* free, and otherwise does what assign_vehicle does for that vehicle.
C18_PreferredSlotOrAutomatic ==
    \A v \in Vehicles, preferred_slot \in PreferredSlots \ {None} :
        LET r == ManualResult(v, preferred_slot)
            n == Val(preferred_slot)
            automatic == assign_vehicle(slots, sold_vehicles, ManualId(v), v.license_plate,
                                        v.purchase_price)
        IN  IF HeldPlates(slots, sold_vehicles) \cap {normalize_license_plate(v.license_plate)} # {}
            THEN r.ret = None /\ r.slots = slots
            ELSE IF n \in FreeSlots(slots)
                 THEN /\ r.ret = Some(n)
                      /\ r.slots = [slots EXCEPT ![n] =
                                       Some(SlotAssignment(n, ManualId(v), v.license_plate,
                                                           v.purchase_price))]
                 ELSE r = automatic

\* The last accepted call put a vehicle of the high tier at preferred slot 1
\* while slot 0, which the automatic policy picks for it, was free; now a
\* request for the occupied slot 1 and one for an out-of-bounds index fall
\* through to slot 0, and a duplicate is rejected although slot 0 is free.
C18_Witness ==
    /\ last = Call("add_vehicle_manually", Some(1))
    /\ slots[0] = None
    /\ slots[1] # None
    /\ Val(slots[1]).purchase_price = 3000
    /\ \E v \in Vehicles : ManualResult(v, Some(1)).ret = Some(0)
    /\ \E v \in Vehicles : ManualResult(v, Some(total_slots)).ret = Some(0)
    /\ \E v \in Vehicles : ManualResult(v, Some(0)).ret = None


\* C19: release_slot returns True and empties that slot alone when the index
\* is in bounds and the slot occupied, and returns False with the table
\* unchanged when the index is out of bounds or the slot empty;
\* release_by_license_plate returns False with the table unchanged when no
\* slot holds the normalized plate, whether or not the pool holds it.
C19_ReleaseRejectsWithoutChange ==
    /\ \A slot_number \in -1 .. total_slots :
          LET r == release_slot(slots, slot_number)
          IN  IF slot_number \in 0 .. (total_slots - 1) /\ slots[slot_number] # None
              THEN r.ret /\ r.slots = Cleared(slots, slot_number)
              ELSE ~r.ret /\ r.slots = slots
    /\ \A p \in Plates :
          TableHolders(slots, normalize_license_plate(p)) = {} =>
              LET r == release_by_license_plate(slots, p)
              IN  ~r.ret /\ r.slots = slots

\* One slot is occupied, another is empty, and a submitted plate is in the
\* pool and not in the table.
C19_Witness ==
    /\ \E k \in DOMAIN slots : release_slot(slots, k).ret
    /\ \E k \in DOMAIN slots : slots[k] = None
    /\ \E p \in Plates :
          /\ PoolHolders(sold_vehicles, normalize_license_plate(p)) # {}
          /\ TableHolders(slots, normalize_license_plate(p)) = {}
          /\ ~release_by_license_plate(slots, p).ret

-----------------------------------------------------------------------------
(* The default strategy on its own: a caller holds one price from -1 to     *)
(* MaxPrice and calls get_slot_range with it, next to a manager whose table *)
(* is empty or has its leading blocks occupied.                             *)

InitRange ==
    /\ total_slots = DefaultTotalSlots
    /\ assignment_strategy = Some(DefaultStrategy)
    /\ \E end \in 0 .. Len(DefaultBlocks) :
          slots = FilledSlots(total_slots, UNION {DefaultBlocks[b] : b \in 1 .. end})
    /\ sold_vehicles = EmptyPool
    /\ last = Call("init", None)
    /\ tally = Tally(0, 0, 0)
    /\ last_sync_time = None
    /\ sync_lock = None
    /\ pc = [t \in Threads |-> "idle"]
    /\ \E purchase_price \in -1 .. MaxPrice :
          frame = [t \in Threads |->
                      IF t = "request" THEN Frame(<<>>, <<>>, purchase_price) ELSE NoFrame]

\* The call returns a range and assigns nothing.
GetSlotRange ==
    /\ last.op = "init"
    /\ last' = Call("get_slot_range",
                    <<frame["request"].purchase_price,
                      get_slot_range(Val(assignment_strategy),
                                     frame["request"].purchase_price)>>)
    /\ UNCHANGED <<tally, last_sync_time, total_slots, assignment_strategy, slots, sold_vehicles, sync_lock, pc, frame>>

NextRange == GetSlotRange

SpecRange == InitRange /\ [][NextRange]_vars

-----------------------------------------------------------------------------
(* The order in which the table fills, checked under SpecDefault and Spec. *)

\* The free indices of the table inside the tier range of v's price.
FreeInTier(v) ==
    {i \in TierRange(v)[1] .. Min2(TierRange(v)[2], total_slots - 1) : i \in FreeSlots(slots)}

NotDuplicate(v) == ~is_duplicate_license_plate(slots, sold_vehicles, v.license_plate)

\* C21: with a strategy, an assign of a plate that is no duplicate, whose
\* tier range has a free index, returns the smallest free index of the
\* range, so a slot freed below occupied slots of the range is taken before
\* any higher one.
C21_AscendingFirstFitInTier ==
    \A v \in AssignableVehicles :
        (NotDuplicate(v) /\ FreeInTier(v) # {}) =>
            AssignResult(v).ret = Some(SetMin(FreeInTier(v)))

\* A release has just freed a slot; a vehicle that is no duplicate has that
\* slot as the lowest free index of its range, with free and occupied
\* indices of the range above it, and assign returns it.
C21_Witness ==
    /\ last.op = "release_by_license_plate"
    /\ \E v \in AssignableVehicles :
          /\ NotDuplicate(v)
          /\ \E i, j \in FreeInTier(v) : i < j /\ AssignResult(v).ret = Some(i)
          /\ \E i \in FreeInTier(v), j \in TierRange(v)[1] .. TierRange(v)[2] :
                i < j /\ slots[j] # None


\* C22: without a strategy an assign of a plate that is no duplicate returns
\* the smallest free index of the table, whatever the price, and puts the
\* vehicle there; it is rejected, with the table unchanged, exactly when no
\* index is free.
C22_NoStrategyFirstFitFromZero ==
    assignment_strategy = None =>
        \A v \in AssignableVehicles :
            NotDuplicate(v) =>
                IF FreeSlots(slots) = {}
                THEN AssignResult(v).ret = None /\ AssignResult(v).slots = slots
                ELSE /\ AssignResult(v).ret = Some(SetMin(FreeSlots(slots)))
                     /\ AssignResult(v).slots[SetMin(FreeSlots(slots))] # None

\* Without a strategy the last accepted call was an assign of a vehicle of
\* the low tier that returned 0 while a higher slot was free, as it still
\* is; and a further vehicle would now get that higher slot.
C22_Witness ==
    /\ assignment_strategy = None
    /\ last = Call("assign_vehicle", Some(0))
    /\ slots[0] # None
    /\ Val(slots[0]).purchase_price < 1500
    /\ slots[total_slots - 1] = None
    /\ \E v \in AssignableVehicles : NotDuplicate(v) /\ AssignResult(v).ret = Some(1)

-----------------------------------------------------------------------------
(* Duplicates, sales and the pool, checked under Spec. *)

\* The pool after complete_handover of the plate.
AfterHandover(license_plate) ==
    complete_vehicle_handover(sold_vehicles, license_plate).sold_vehicles

\* C23: while the pool holds a record of a normalized plate, assign and
\* add_vehicle_manually, with any preferred slot, reject every spelling of
\* that plate and leave the table unchanged; once complete_handover has
\* removed the record, an assign of the plate is accepted if a slot is free.
C23_PendingPlateIsADuplicate ==
    \A v \in Vehicles :
        PoolHolders(sold_vehicles, normalize_license_plate(v.license_plate)) # {} =>
            /\ v \in AssignableVehicles =>
                  AssignResult(v).ret = None /\ AssignResult(v).slots = slots
            /\ \A preferred_slot \in PreferredSlots :
                  /\ ManualResult(v, preferred_slot).ret = None
                  /\ ManualResult(v, preferred_slot).slots = slots
            /\ \A w \in AssignableVehicles :
                  ( /\ normalize_license_plate(w.license_plate)
                         = normalize_license_plate(v.license_plate)
                    /\ FreeSlots(slots) # {} ) =>
                      /\ complete_vehicle_handover(sold_vehicles, v.license_plate).ret
                      /\ assign_vehicle(slots, AfterHandover(v.license_plate),
                                        Val(w.vehicle_id), w.license_plate,
                                        w.purchase_price).ret # None

\* A submitted plate is pending in a pool entry other than the first, under
\* another spelling than the one now offered; a slot is free, the assign is
\* rejected, and after the handover it is accepted.
C23_Witness ==
    \E v \in AssignableVehicles, idx \in DOMAIN sold_vehicles :
        /\ idx > 0
        /\ sold_vehicles[idx] # None
        /\ Val(sold_vehicles[idx]).license_plate # v.license_plate
        /\ Normalized(sold_vehicles[idx]) = normalize_license_plate(v.license_plate)
        /\ FreeSlots(slots) # {}
        /\ AssignResult(v).ret = None
        /\ assign_vehicle(slots, AfterHandover(v.license_plate), Val(v.vehicle_id),
                          v.license_plate, v.purchase_price).ret # None


\* C24: mark_sold of a plate that no slot of the table holds, be it pending
\* in the pool or never assigned, returns False, adds no pool record and
\* leaves the table and the pool unchanged, whether or not the pool has a
\* free entry.
C24_SaleLooksOnlyInTheTable ==
    \A license_plate \in Plates :
        TableHolders(slots, normalize_license_plate(license_plate)) = {} =>
            /\ ~SoldResult(license_plate).ret
            /\ SoldResult(license_plate).slots = slots
            /\ SoldResult(license_plate).sold_vehicles = sold_vehicles
            /\ get_sold_vehicles_count(SoldResult(license_plate).sold_vehicles)
                  = get_sold_vehicles_count(sold_vehicles)

\* The pool has a free entry; a sale of a plate that is pending and a sale of
\* a plate that is held nowhere are both rejected.
C24_Witness ==
    /\ first_free_sold_index(sold_vehicles) # None
    /\ \E p \in Plates :
          /\ PoolHolders(sold_vehicles, normalize_license_plate(p)) # {}
          /\ ~SoldResult(p).ret
    /\ \E p \in Plates :
          /\ normalize_license_plate(p) \notin HeldPlates(slots, sold_vehicles)
          /\ ~SoldResult(p).ret
    /\ last.op = "mark_vehicle_as_sold"

-----------------------------------------------------------------------------
(* Further properties of the pool, checked under SpecPool. *)

FreePoolEntries(sv) == {i \in DOMAIN sv : sv[i] = None}

\* C25: mark_sold of a plate in stock is accepted exactly when one of the 10
\* pool entries is free; accepted, it writes the record into the lowest free
\* entry, whatever entries above it are occupied, leaves the other entries as
\* they are and empties the slot; rejected, it leaves the vehicle in its
\* slot.
C25_SaleTakesLowestFreeEntry ==
    /\ DOMAIN sold_vehicles = 0 .. (SOLD_VEHICLE_SLOTS - 1)
    /\ \A license_plate \in InStockPlates(slots) :
          LET r == mark_vehicle_as_sold(slots, sold_vehicles, license_plate)
              free == FreePoolEntries(sold_vehicles)
          IN  /\ r.ret <=> free # {}
              /\ r.ret =>
                    /\ r.sold_vehicles[SetMin(free)] # None
                    /\ Val(r.sold_vehicles[SetMin(free)]).license_plate = license_plate
                    /\ \A i \in DOMAIN sold_vehicles \ {SetMin(free)} :
                          r.sold_vehicles[i] = sold_vehicles[i]
                    /\ license_plate \notin InStockPlates(r.slots)
              /\ ~r.ret =>
                    /\ r.slots = slots
                    /\ r.sold_vehicles = sold_vehicles

\* A handover has freed an entry below the last one while the nine others
\* are occupied; the sale of the vehicle in stock takes the freed entry.
C25_Witness ==
    /\ tally.completed > 0
    /\ Cardinality(FreePoolEntries(sold_vehicles)) = 1
    /\ sold_vehicles[SOLD_VEHICLE_SLOTS - 1] # None
    /\ \E license_plate \in InStockPlates(slots), i \in FreePoolEntries(sold_vehicles) :
          LET r == mark_vehicle_as_sold(slots, sold_vehicles, license_plate)
          IN  r.ret /\ r.sold_vehicles[i] # None


\* C26: the pool has the 10 entries 0 .. 9, each empty or holding one
\* record; the record in entry i is labelled v(i+1); and get_sold_vehicles
\* lists exactly the records held, in ascending order of their entries.
C26_PoolIsLabelledAndListedByEntry ==
    LET pending == get_sold_vehicles(sold_vehicles)
    IN  /\ DOMAIN sold_vehicles = 0 .. (SOLD_VEHICLE_SLOTS - 1)
        /\ get_sold_vehicles_count(sold_vehicles) <= SOLD_VEHICLE_SLOTS
        /\ \A i \in DOMAIN sold_vehicles :
              sold_vehicles[i] # None =>
                  /\ sold_vehicles[i] = Some(Val(sold_vehicles[i]))
                  /\ Val(sold_vehicles[i]).sold_slot = <<"v", i + 1>>
        /\ Len(pending) = get_sold_vehicles_count(sold_vehicles)
        /\ \A j \in 1 .. Len(pending) :
              /\ pending[j].sold_slot[2] - 1 \in DOMAIN sold_vehicles
              /\ sold_vehicles[pending[j].sold_slot[2] - 1] = Some(pending[j])
        /\ \A j, k \in 1 .. Len(pending) :
              j < k => pending[j].sold_slot[2] < pending[k].sold_slot[2]

\* The pool is full and a vehicle delivered, and so sold, later than another
\* one is listed before it.
C26_Witness ==
    LET pending == get_sold_vehicles(sold_vehicles)
    IN  /\ Len(pending) = SOLD_VEHICLE_SLOTS
        /\ \E j, k \in 1 .. Len(pending), a, b \in 0 .. MaxStocked :
              /\ j < k
              /\ a > b
              /\ pending[j].license_plate = FillerPlate(a)
              /\ pending[k].license_plate = FillerPlate(b)

-----------------------------------------------------------------------------
(* The shared boundaries of the default ranges, checked under SpecDefault. *)

\* C27: with the default ranges and 200 slots, on an empty table the assign
\* of a medium-price vehicle returns 50 and that of a low-price vehicle 100;
\* the assign of a high-price vehicle returns 50 exactly when the slots
\* 0 .. 49 are occupied and slot 50 is free, and with 0 .. 50 occupied it
\* returns the highest free index of the table.
C27_SharedBoundaryGoesToFirstComer ==
    \A v \in AssignableVehicles :
        NotDuplicate(v) =>
            /\ (FreeSlots(slots) = DOMAIN slots /\ v.purchase_price < 3000) =>
                  AssignResult(v).ret = Some(IF v.purchase_price >= 1500 THEN 50 ELSE 100)
            /\ v.purchase_price >= 3000 =>
                  /\ AssignResult(v).ret = Some(50)
                        <=> (50 \in FreeSlots(slots) /\ (0 .. 49) \cap FreeSlots(slots) = {})
                  /\ ((0 .. 50) \cap FreeSlots(slots) = {} /\ FreeSlots(slots) # {}) =>
                        AssignResult(v).ret = Some(SetMax(FreeSlots(slots)))

\* Slots 0 .. 49 are occupied and a submitted medium-price vehicle sits in
\* slot 50, so that a high-price vehicle overflows to the highest free
\* index; a low-price vehicle sits in slot 100.
C27_Witness ==
    /\ (0 .. 49) \cap FreeSlots(slots) = {}
    /\ slots[50] # None
    /\ Val(slots[50]).license_plate \in Plates
    /\ Val(slots[50]).purchase_price = 1500
    /\ slots[100] # None
    /\ Val(slots[100]).license_plate \in Plates
    /\ Val(slots[100]).purchase_price < 1500
    /\ \E v \in AssignableVehicles :
          /\ NotDuplicate(v)
          /\ v.purchase_price >= 3000
          /\ AssignResult(v).ret = Some(199)

-----------------------------------------------------------------------------
(* mark_sold against the other callers, checked under SpecConc. *)

\* The slot a thread inside mark_vehicle_as_sold is about to clear.
CopiedSlot(t) == Val(frame[t].assignment).slot_number

\* C28: whatever the other threads do while a thread is inside mark_sold:
\* when it writes the pool record the table still holds the assignment it
\* looked up, so that no record is left for a vehicle taken out of the table
\* in between; and when it clears the slot as its last step the slot does
\* not hold another assignment than the one it copied.
C28_SaleClearsTheSlotItCopied ==
    \A t \in Threads :
        /\ pc[t] = "move_to_sold" => slots[CopiedSlot(t)] = frame[t].assignment
        /\ pc[t] = "release_original" =>
              (slots[CopiedSlot(t)] = None \/ slots[CopiedSlot(t)] = frame[t].assignment)

\* A thread is about to clear, as the last step of mark_sold, a slot that
\* holds a vehicle added after the lookup, not the one it copied into the
\* pool.
C28_Witness ==
    \E t \in Threads :
        /\ pc[t] = "release_original"
        /\ slots[CopiedSlot(t)] # None
        /\ Val(slots[CopiedSlot(t)]).vehicle_id # Val(frame[t].assignment).vehicle_id
        /\ \E i \in DOMAIN sold_vehicles :
              /\ sold_vehicles[i] # None
              /\ Val(sold_vehicles[i]).vehicle_id = Val(frame[t].assignment).vehicle_id

-----------------------------------------------------------------------------
(* The sync on its own: a manager with the small table, to which vehicles   *)
(* are added by sync_vehicles_from_autoflex, whose source returns lists of  *)
(* the submitted records, each flagged sold or not; sold vehicles are       *)
(* handed over.                                                             *)

\* The records get_all_vehicles may return: the submitted records that carry
\* an id, each flagged sold or not, and the one without id.
SourceRecords ==
    {[vehicle_id |-> v.vehicle_id, license_plate |-> v.license_plate,
      purchase_price |-> v.purchase_price, is_sold |-> is_sold] :
        v \in Vehicles, is_sold \in {0, 1}}
    \ {[vehicle_id |-> None, license_plate |-> v.license_plate,
         purchase_price |-> v.purchase_price, is_sold |-> 0] : v \in Vehicles}

RECURSIVE SourceLists(_)
SourceLists(n) ==
    IF n = 0 THEN {<<>>}
    ELSE SourceLists(n - 1)
            \cup {Append(vehicles, r) : vehicles \in SourceLists(n - 1), r \in SourceRecords}

SyncVehiclesFromAutoflex ==
    \E vehicles \in SourceLists(MaxSyncList) :
        \E r \in {sync_vehicles_from_autoflex(slots, sold_vehicles, vehicles)} :
            /\ slots' = r.slots
            /\ sold_vehicles' = r.sold_vehicles
            /\ last' = Call("sync_vehicles_from_autoflex",
                            [total |-> r.ret.total, added |-> r.ret.added,
                             sold_detected |-> r.ret.sold_detected,
                             skipped |-> r.ret.skipped])
            /\ UNCHANGED <<tally, last_sync_time, total_slots, assignment_strategy, sync_lock, pc, frame>>

NextSync ==
    \/ SyncVehiclesFromAutoflex
    \/ CompleteVehicleHandover

SpecSync == Init /\ [][NextSync]_vars

\* One iteration of the sync on the current tables.
SyncedVehicle(r) == sync_vehicle(SyncState(slots, sold_vehicles, 0, 0, 0, <<>>), r)

\* C29: a record the source flags as sold puts no vehicle into the table: if
\* a slot holds its plate the vehicle is moved to the pool and counted as
\* sold_detected, or, the pool being full, stays where it is and is reported
\* sold_failed; if no slot holds its plate the record is counted as skipped
\* and nothing changes.  A whole sync of such records fills no slot.
C29_SyncNeverStocksASoldVehicle ==
    /\ \A r \in SourceRecords :
          (r.is_sold = 1 /\ r.vehicle_id # None) =>
              LET st == SyncedVehicle(r)
                  n == normalize_license_plate(r.license_plate)
              IN  /\ \A k \in DOMAIN st.slots :
                        st.slots[k] # None => st.slots[k] = slots[k]
                  /\ IF TableHolders(slots, n) = {}
                     THEN /\ st.slots = slots
                          /\ st.sold_vehicles = sold_vehicles
                          /\ st.skipped_count = 1
                          /\ st.results = <<>>
                     ELSE IF FreePoolEntries(sold_vehicles) # {}
                     THEN /\ TableHolders(st.slots, n) = {}
                          /\ PoolHolders(st.sold_vehicles, n) # {}
                          /\ st.sold_detected_count = 1
                          /\ st.results = <<"sold_detected">>
                     ELSE /\ st.slots = slots
                          /\ st.sold_vehicles = sold_vehicles
                          /\ st.results = <<"sold_failed">>
    /\ \A vehicles \in SourceLists(MaxSyncList) :
          (\A j \in 1 .. Len(vehicles) : vehicles[j].is_sold = 1) =>
              LET r == sync_vehicles_from_autoflex(slots, sold_vehicles, vehicles)
              IN  /\ r.ret.added = 0
                  /\ \A k \in DOMAIN r.slots : r.slots[k] # None => r.slots[k] = slots[k]

\* The last sync moved a vehicle to the pool and filled it; now a sold
\* record of a vehicle in the table is reported sold_failed, and a sold
\* record of a plate in no slot is skipped although a slot is free.
C29_Witness ==
    /\ last.op = "sync_vehicles_from_autoflex"
    /\ last.ret.sold_detected > 0
    /\ FreeSlots(slots) # {}
    /\ \E r \in SourceRecords :
          /\ r.is_sold = 1
          /\ r.vehicle_id # None
          /\ SyncedVehicle(r).results = <<"sold_failed">>
    /\ \E r \in SourceRecords :
          /\ r.is_sold = 1
          /\ r.vehicle_id # None
          /\ normalize_license_plate(r.license_plate) \notin HeldPlates(slots, sold_vehicles)
          /\ SyncedVehicle(r).skipped_count = 1


\* process_new_vehicle on the current tables, for a submitted plate offered
\* with the id and price of a submitted vehicle.
ProcessResult(v, license_plate) ==
    process_new_vehicle(slots, sold_vehicles, Val(v.vehicle_id), license_plate,
                        v.purchase_price)

\* C30: process_new_vehicle of a plate that a slot holds, however it is
\* spelled, returns the number of that slot and leaves the table as it is;
\* repeated after it has placed a vehicle it returns the same slot and
\* changes nothing; of a plate that only the pool holds it returns None and
\* leaves the table as it is.
C30_ProcessNewVehicleIsIdempotent ==
    \A v \in AssignableVehicles, license_plate \in Plates :
        LET n == normalize_license_plate(license_plate)
            p == ProcessResult(v, license_plate)
            again == process_new_vehicle(p.slots, sold_vehicles, Val(v.vehicle_id),
                                         license_plate, v.purchase_price)
        IN  /\ TableHolders(slots, n) # {} =>
                  /\ p.ret = Some(SetMin(TableHolders(slots, n)))
                  /\ p.slots = slots
            /\ (TableHolders(slots, n) = {} /\ PoolHolders(sold_vehicles, n) # {}) =>
                  /\ p.ret = None
                  /\ p.slots = slots
            /\ p.ret # None =>
                  /\ again.ret = p.ret
                  /\ again.slots = p.slots

\* The last sync added a vehicle; its plate, spelled otherwise, gets the slot
\* it sits in and not the free one; another plate is pending in the pool and
\* gets None although a slot is free.
C30_Witness ==
    /\ last.op = "sync_vehicles_from_autoflex"
    /\ last.ret.added = 1
    /\ FreeSlots(slots) # {}
    /\ \E v \in AssignableVehicles, license_plate \in Plates, k \in DOMAIN slots :
          /\ slots[k] # None
          /\ Val(slots[k]).license_plate # license_plate
          /\ ProcessResult(v, license_plate).ret = Some(k)
    /\ \E v \in AssignableVehicles :
          /\ PoolHolders(sold_vehicles, normalize_license_plate(v.license_plate)) # {}
          /\ ProcessResult(v, v.license_plate).ret = None

-----------------------------------------------------------------------------
(* Properties of whole syncs, checked under SpecApp: the manager is the one *)
(* KeyManagementApp.__init__ builds, with a tier strategy.                  *)

InitApp == Init /\ assignment_strategy # None

SpecApp == InitApp /\ [][NextSync]_vars

\* The lists of no, one and two records: in a pair each record meets the
\* effect the other has on the tables.
SourcePairs ==
    {<<>>} \cup {<<r>> : r \in SourceRecords}
           \cup {<<r, t>> : r \in SourceRecords, t \in SourceRecords}

\* The lists a source with pairwise distinct normalized plates returns.
DistinctPlates(vehicles) ==
    \A i, j \in 1 .. Len(vehicles) :
        i # j => normalize_license_plate(vehicles[i].license_plate)
                    # normalize_license_plate(vehicles[j].license_plate)

StableLists == {vehicles \in SourcePairs : DistinctPlates(vehicles)}

Failures(results) == {j \in 1 .. Len(results) : results[j] \in {"add_failed", "sold_failed"}}

\* C31: over a list with pairwise distinct normalized plates, a sync that
\* reported no add_failed and no sold_failed leaves tables on which a second
\* sync over the same list adds nothing, moves nothing to the pool and
\* changes neither table.
C31_SyncTwiceIsSyncOnce ==
    \A vehicles \in StableLists :
        \A first \in {sync_vehicles_from_autoflex(slots, sold_vehicles, vehicles)} :
            Failures(first.ret.results) = {} =>
                \A second \in {sync_vehicles_from_autoflex(first.slots, first.sold_vehicles, vehicles)} :
                    /\ second.ret.added = 0
                    /\ second.ret.sold_detected = 0
                    /\ second.slots = first.slots
                    /\ second.sold_vehicles = first.sold_vehicles

\* A sync has run; a sync over some list would now add one vehicle and move
\* another to the pool without a failure.
C31_Witness ==
    /\ last.op = "sync_vehicles_from_autoflex"
    /\ \E vehicles \in StableLists :
          LET first == sync_vehicles_from_autoflex(slots, sold_vehicles, vehicles)
          IN  /\ Failures(first.ret.results) = {}
              /\ first.ret.added > 0
              /\ first.ret.sold_detected > 0


\* The lists in which every record of the normalized plate n carries the sold
\* flag, and at least one record does.
ReportedSold(n) ==
    {vehicles \in SourcePairs :
        /\ \E j \in 1 .. Len(vehicles) :
              normalize_license_plate(vehicles[j].license_plate) = n
        /\ \A j \in 1 .. Len(vehicles) :
              normalize_license_plate(vehicles[j].license_plate) = n
                 => vehicles[j].is_sold = 1}

Absent(s, sv, n) == TableHolders(s, n) = {} /\ PoolHolders(sv, n) = {}

\* C32: complete_handover of a pending plate leaves the plate in neither
\* table, and a sync that receives a plate held by neither table only in
\* records flagged sold leaves it in neither table again: so every later sync
\* of the behaviour finds it absent and leaves it absent while the source
\* reports it sold.
C32_HandedOverStaysAway ==
    \A license_plate \in Plates :
        \A n \in {normalize_license_plate(license_plate)} :
            \A handed \in {complete_vehicle_handover(sold_vehicles, license_plate)} :
                /\ handed.ret => Absent(slots, handed.sold_vehicles, n)
                /\ (handed.ret \/ Absent(slots, sold_vehicles, n)) =>
                      \A vehicles \in ReportedSold(n) :
                          \A r \in {sync_vehicles_from_autoflex(slots, handed.sold_vehicles,
                                                                vehicles)} :
                              Absent(r.slots, r.sold_vehicles, n)

\* A handover has just removed a record, and a sync that reports the plate
\* as sold adds another vehicle beside it.
C32_Witness ==
    /\ last.op = "complete_vehicle_handover"
    /\ \E license_plate \in Plates :
          /\ Absent(slots, sold_vehicles, normalize_license_plate(license_plate))
          /\ \E vehicles \in ReportedSold(normalize_license_plate(license_plate)) :
                sync_vehicles_from_autoflex(slots, sold_vehicles, vehicles).ret.added = 1


\* The iterations of the loop, on the records in order, after which a slot
\* that was empty holds a vehicle.
RECURSIVE Occupations(_, _)
Occupations(st, vehicles) ==
    IF vehicles = <<>> THEN 0
    ELSE LET next == CHOOSE outcome \in {sync_vehicle(st, Head(vehicles))} : TRUE
         IN  Cardinality({k \in DOMAIN st.slots : st.slots[k] = None /\ next.slots[k] # None})
                + Occupations(next, Tail(vehicles))

\* The slots that hold, after the sync, a vehicle they did not hold before it.
NewlyOccupied(before, after) ==
    {k \in DOMAIN after : after[k] # None /\ after[k] # before[k]}

\* The records the loop does not pass over.
Processed(vehicles) ==
    {j \in 1 .. Len(vehicles) :
        vehicles[j].vehicle_id # None /\ vehicles[j].license_plate # <<>>}

\* What the result says of every list: the total, the sum of the counters,
\* and the pool entries filled.
Accounted(vehicles, r) ==
    /\ r.ret.total = Len(vehicles)
    /\ r.ret.added + r.ret.sold_detected + r.ret.skipped
          + Cardinality(Failures(r.ret.results)) = Cardinality(Processed(vehicles))
    /\ r.ret.sold_detected = Cardinality(NewlyOccupied(sold_vehicles, r.sold_vehicles))

-----------------------------------------------------------------------------
(* The structure each operation writes, checked under Spec. *)

\* The slots and the pool entries a step changes.
ChangedSlots == {k \in DOMAIN slots : slots'[k] # slots[k]}
ChangedEntries == {i \in DOMAIN sold_vehicles : sold_vehicles'[i] # sold_vehicles[i]}

\* The calls that place a vehicle in the table or take one out of it.  A
\* step that changes a table is an accepted call, named by last after it.
TableCalls ==
    {"assign_vehicle", "add_vehicle_manually", "release_slot", "release_by_license_plate"}

\* get_system_status: occupied_slots, sold_vehicles_pending and
\* sold_vehicle_slots_available.
StatusCounts(s, sv) ==
    [occupied_slots |-> get_occupied_slots_count(s),
     sold_vehicles_pending |-> get_sold_vehicles_count(sv),
     sold_vehicle_slots_available |-> SOLD_VEHICLE_SLOTS - get_sold_vehicles_count(sv)]

\* C34: in every state the occupied count, total_slots - available, is the
\* number of slots that hold a vehicle, and the free pool count, 10 - pending,
\* is the number of empty pool entries; a step of assign, add_vehicle_manually,
\* release or release_by_license_plate leaves the pool as it was; a step of
\* complete_handover leaves the table as it was; a step of mark_sold empties
\* exactly one slot and fills exactly one pool entry, so that occupied +
\* pending is what it was.
C34_EachOperationWritesItsOwnTable ==
    /\ [](/\ StatusCounts(slots, sold_vehicles).occupied_slots
                = Cardinality({k \in DOMAIN slots : slots[k] # None})
          /\ StatusCounts(slots, sold_vehicles).sold_vehicle_slots_available
                = Cardinality({i \in DOMAIN sold_vehicles : sold_vehicles[i] = None}))
    /\ [][/\ last'.op \in TableCalls => sold_vehicles' = sold_vehicles
          /\ last'.op = "complete_vehicle_handover" => slots' = slots
          /\ last'.op = "mark_vehicle_as_sold" =>
                /\ Cardinality(ChangedSlots) = 1
                /\ \A k \in ChangedSlots : slots[k] # None /\ slots'[k] = None
                /\ Cardinality(ChangedEntries) = 1
                /\ \A i \in ChangedEntries :
                      sold_vehicles[i] = None /\ sold_vehicles'[i] # None
                /\ StatusCounts(slots', sold_vehicles').occupied_slots
                      + StatusCounts(slots', sold_vehicles').sold_vehicles_pending
                   = StatusCounts(slots, sold_vehicles).occupied_slots
                      + StatusCounts(slots, sold_vehicles).sold_vehicles_pending]_vars

\* A sale has moved one vehicle to the pool while the other stays in its slot.
C34_Witness ==
    /\ last.op = "mark_vehicle_as_sold"
    /\ get_occupied_slots_count(slots) = 1
    /\ get_sold_vehicles_count(sold_vehicles) > 0
    /\ \E i \in DOMAIN sold_vehicles :
          /\ sold_vehicles[i] # None
          /\ Val(sold_vehicles[i]).license_plate \in Plates

-----------------------------------------------------------------------------
(* web_app: the callers of perform_sync alone.  The worker thread and a     *)
(* request (or the startup sync) call perform_sync again and again; what    *)
(* runs under sync_lock runs without interleaving, so the body of           *)
(* sync_vehicles_from_autoflex is one step.  Each step of the body may      *)
(* raise instead.                                                           *)

\* What get_all_vehicles returns to one sync: nothing, or one record.  A
\* longer list does to the tables what the syncs of its records do one after
\* the other.
WebLists == {<<>>} \cup {<<r>> : r \in SourceRecords}

\* The exception leaves the with block keeping the lock, so the thread is
\* back at its caller while holding it.
SyncRaiseKeepingLock(t) ==
    /\ pc[t] \in {"authenticate", "sync_loop"}
    /\ Goto(t, AfterPerformSync(t))
    /\ UNCHANGED <<tally, last_sync_time, total_slots, assignment_strategy, slots, sold_vehicles, last, sync_lock, frame>>

\* The exception is not caught by auto_sync_worker: the worker thread ends.
SyncRaiseUncaught(t) ==
    /\ pc[t] \in {"authenticate", "sync_loop"}
    /\ sync_lock' = None
    /\ Goto(t, IF t = "worker" THEN "terminated" ELSE "idle")
    /\ UNCHANGED <<tally, last_sync_time, total_slots, assignment_strategy, slots, sold_vehicles, last, frame>>

\* get_app(), authenticate() or sync_vehicles_from_autoflex() raises: in the
\* loop after the records of vehicles have been processed, before any record
\* otherwise.  The with block releases the lock; neither last_sync_time nor
\* last_sync_result is assigned; auto_sync_worker catches the exception.
SyncRaise(t) ==
    /\ pc[t] \in {"authenticate", "sync_loop"}
    /\ \E vehicles \in (IF pc[t] = "sync_loop" THEN WebLists ELSE {<<>>}) :
          \E r \in {sync_vehicles_from_autoflex(slots, sold_vehicles, vehicles)} :
              slots' = r.slots /\ sold_vehicles' = r.sold_vehicles
    /\ sync_lock' = None
    /\ Goto(t, AfterPerformSync(t))
    /\ UNCHANGED <<tally, last_sync_time, total_slots, assignment_strategy, last, frame>>

\* result = key_mgmt.sync_vehicles_from_autoflex(); last_sync_time =
\* datetime.now(); last_sync_result = {'success': True, ...}; return.
RunSync(t) ==
    /\ pc[t] = "sync_loop"
    /\ \E vehicles \in WebLists :
          \E r \in {sync_vehicles_from_autoflex(slots, sold_vehicles, vehicles)} :
              slots' = r.slots /\ sold_vehicles' = r.sold_vehicles
    /\ last_sync_time' = datetime_now(last_sync_time)
    /\ last' = Call("perform_sync", [success |-> TRUE])
    /\ sync_lock' = None
    /\ Goto(t, AfterPerformSync(t))
    /\ UNCHANGED <<tally, total_slots, assignment_strategy, frame>>

NextWeb ==
    \E t \in Threads :
        \/ PerformSync(t)
        \/ AcquireSyncLock(t)
        \/ Authenticate(t)
        \/ RunSync(t)
        \/ SyncRaise(t)

\* get_app() builds the KeyManagementApp once, with empty tables.
InitWeb == InitApp /\ sold_vehicles = EmptyPool

SpecWeb == InitWeb /\ [][NextWeb]_vars

\* A thread inside the with block runs on until it leaves it: authenticate
\* and the sync return or raise.
InSync(t) == Authenticate(t) \/ RunSync(t) \/ SyncRaise(t)

\* The scheduling of web_app: time.sleep(AUTO_SYNC_INTERVAL) returns and
\* AUTO_SYNC_ENABLED stays True, so the worker calls perform_sync again; the
\* sync that holds the lock terminates; a thread blocked on sync_lock gets
\* it if it is released again and again.  No request needs ever to come.
FairWeb ==
    /\ WF_vars(PerformSync("worker"))
    /\ \A t \in Threads : WF_vars(InSync(t)) /\ SF_vars(AcquireSyncLock(t))

SpecWebFair == SpecWeb /\ FairWeb

\* The threads inside the with block of perform_sync.
SyncBody == {t \in Threads : pc[t] \in {"authenticate", "sync_loop"}}

C36_WorkerSurvivesFailedSyncs ==
    /\ [](pc["worker"] # "terminated")
    /\ []<>(pc["worker"] = "perform_sync")
    /\ \A t \in Threads : (pc[t] = "authenticate") ~> (pc["worker"] = "perform_sync")
    /\ [][\A t \in Threads :
             (pc[t] = "authenticate" /\ pc'[t] # "sync_loop") =>
                 /\ slots' = slots
                 /\ sold_vehicles' = sold_vehicles
                 /\ last_sync_time' = last_sync_time]_vars

\* The worker sleeps after a perform_sync that failed to authenticate, no
\* sync having completed yet.
C36_Witness ==
    /\ pc["worker"] = "sleep"
    /\ pc["request"] = "idle"
    /\ last_sync_time = None
    /\ last.op = "perform_sync"

-----------------------------------------------------------------------------
(* AutoflexAPIClient.get_all_vehicles: the loop over the pages.  The source *)
(* answers each request as it likes: the request fails, or a page comes     *)
(* back, with or without its data and its nextpage key.                     *)

\* The records of a page: none, one, ... MaxPageRecords, by the page number.
PageData(page) == [i \in 1 .. (page % (MaxPageRecords + 1)) |-> <<page, i>>]

\* What get_vehicles may return for a page: None, or the JSON object, whose
\* key nextpage is present or not and whose key data is left out when the
\* page has no records.
PageResults(page) ==
    {None} \cup {Some([data |-> IF PageData(page) = <<>> THEN None ELSE Some(PageData(page)),
                       nextpage |-> nextpage]) :
                    nextpage \in {None, Some(TRUE), Some(FALSE)}}

\* dict.get(key, default)
dict_get(value, default) == IF value = None THEN default ELSE Val(value)

\* The locals of get_all_vehicles, and the pages it has requested with what
\* get_vehicles returned for each.
PageFrame(page, has_next_page, all_vehicles, requested, responses) ==
    [page |-> page, has_next_page |-> has_next_page, all_vehicles |-> all_vehicles,
     requested |-> requested, responses |-> responses]

\* The limit takes effect one page early.
page_limit_passed_early(page) == page >= PAGE_LIMIT

\* if page > 100: break
page_limit_passed(page) == page > PAGE_LIMIT

\* all_vehicles = []; page = 1; has_next_page = True
GetAllVehicles(t) ==
    /\ pc[t] = "idle"
    /\ Goto(t, "get_vehicles")
    /\ frame' = [frame EXCEPT ![t] = PageFrame(1, TRUE, <<>>, <<>>, <<>>)]
    /\ UNCHANGED <<tally, last_sync_time, total_slots, assignment_strategy, slots, sold_vehicles, last, sync_lock>>

\* One pass of while has_next_page, and the test that follows it.
GetVehicles(t) ==
    /\ pc[t] = "get_vehicles"
    /\ \E result \in PageResults(frame[t].page) :
          LET f == frame[t]
              vehicles == dict_get(Val(result).data, <<>>)
              has_next_page == dict_get(Val(result).nextpage, FALSE)
          IN  IF result = None
              THEN /\ frame' = [frame EXCEPT ![t] =
                                   PageFrame(f.page, f.has_next_page, f.all_vehicles,
                                             Append(f.requested, f.page),
                                             Append(f.responses, result))]
                   /\ Goto(t, "all_vehicles")
              ELSE /\ frame' = [frame EXCEPT ![t] =
                                   PageFrame(f.page + 1, has_next_page,
                                             f.all_vehicles \o vehicles,
                                             Append(f.requested, f.page),
                                             Append(f.responses, result))]
                   /\ Goto(t, IF page_limit_passed(f.page + 1) \/ ~has_next_page
                              THEN "all_vehicles" ELSE "get_vehicles")
    /\ UNCHANGED <<tally, last_sync_time, total_slots, assignment_strategy, slots, sold_vehicles, last, sync_lock>>

NextPages ==
    \/ GetAllVehicles("worker")
    \/ GetVehicles("worker")

SpecPages == InitWeb /\ [][NextPages]_vars

\* Every request ends, by its answer or by the timeout of requests.get, and
\* the loop goes on.
SpecPagesFair == SpecPages /\ WF_vars(NextPages)

\* The request of the page succeeded and the page reports a next one.
ReportsNextPage(result) == result # None /\ dict_get(Val(result).nextpage, FALSE)

\* The records of the pages that came back, in the order of the requests.
RECURSIVE Fetched(_)
Fetched(responses) ==
    IF responses = <<>> THEN <<>>
    ELSE (IF Head(responses) = None THEN <<>> ELSE dict_get(Val(Head(responses)).data, <<>>))
            \o Fetched(Tail(responses))

====
